---- MODULE Spec2Model ----
(***************************************************************************)
(* State-machine model of ng-terminus: lifecycle-bound RxJS subscriptions. *)
(*                                                                         *)
(* The specifications of this module:                                      *)
(*   SpecBinder    : the operators that bind a stream to a single-shot     *)
(*                   Subject through takeUntil (takeUntilDestroyed,        *)
(*                   cancelOnDestroy, takeUntilFormDestroyed,              *)
(*                   HttpRequestManager, FormSubscriptionManager).         *)
(*   SpecOperators : every lifecycle-binding operator applied with or      *)
(*                   without its lifecycle source (DestroyRef, Router,     *)
(*                   Document).                                            *)
(*   SpecManager   : SubscriptionManager and safeUnsubscribe.              *)
(*   SpecSupersede : streams built by cancelPrevious() closures.           *)
(*   SpecRetry     : one subscription to a retryWithBackoff stream.        *)
(*   SpecDebug     : SubscriptionDebuggerService, the streams it returns   *)
(*                   and their subscribers.                                *)
(*   SpecTracking  : debugSubscription and MemoryOptimizer.optimize called *)
(*                   with tracking switched on and off.                    *)
(*   SpecKeyed     : HttpRequestManager and FormSubscriptionManager with   *)
(*                   their keyed maps.                                     *)
(*   SpecForm      : one subscription to a takeWhileFormValid stream.      *)
(*   SpecTest      : TestObservable and SubscriptionTester.                *)
(*   SpecTeardown  : SubscriptionManager.ngOnDestroy followed through its  *)
(*                   forEach.                                              *)
(*   SpecOptimizer : MemoryOptimizer.optimize streams, their subscriptions *)
(*                   and finalize.                                         *)
(*   SpecShare     : one observable returned by                            *)
(*                   MemoryOptimizer.shareWithCleanup.                     *)
(* The actions of one model leave the variables of the others unchanged.   *)
(***************************************************************************)
EXTENDS Integers, Sequences, FiniteSets, TLC

\* ----------------------------------------------------------------- bounds
NumBindings == 2      \* operator applications (derived streams) per run
NumSubs == 2          \* subscriptions to derived streams per run
MaxValues == 1        \* values one subscriber is sent while it is live
NumUserIds == 1       \* caller-supplied request ids
NumNames == 1         \* names handed to FormSubscriptionManager.manage
NumOperators == 2     \* calls of the cancelPrevious() factory (closures)
MaxRetriesArg == 3    \* largest maxRetries handed to retryWithBackoff
MaxFailures == 3      \* failing subscriptions of a source that succeeds in the end
MaxAttempts == 5      \* source subscriptions followed in one run
NumTracked == 2       \* calls of debugSubscription
NumDebugSubs == 2     \* subscriptions to the streams debugSubscription returned
SrcLen == 2           \* values a source emits before it ends
MaxClock == 1         \* clock readings after the first
NumOptimized == 2     \* calls of MemoryOptimizer.optimize
NumManaged == 2       \* Subscription objects handed to SubscriptionManager
MaxUrlLen == 6        \* characters of a url given to matchesRoutePattern
MaxPatternLen == 5    \* characters of a pattern given to matchesRoutePattern
MaxNavs == 3          \* NavigationEnd events of the router
MaxDocEvents == 4     \* visibilitychange, blur and focus events of the document
MaxSourceValues == 3  \* values of the source of a visibility operator
MaxBufferSize == 2    \* the bufferSize argument of bufferWhileHidden
NumTestObs == 2       \* TestObservable objects
NumTesterSubs == 2    \* calls of SubscriptionTester.subscribe
NumTesterNames == 2   \* names handed to SubscriptionTester.subscribe
MaxEmits == 2         \* calls of TestObservable.emit that reach the subject
NumShareSubs == 3     \* subscribers of the observable shareWithCleanup returned
MaxCleanupDelay == 2  \* largest cleanupDelayMs, in units of time

Bindings == 1..NumBindings
Subs == 1..NumSubs
NoBinding == 0

DestroyKinds == {"takeUntilDestroyed", "cancelOnDestroy", "takeUntilFormDestroyed"}
GateKinds == {"takeUntilRoute", "takeWhileOnRoute", "takeWhileVisible", "takeUntilHidden"}
RequestKind == "createCancellableRequest"
ManageKind == "manage"

\* keys of the two keyed managers; NoKey for operators that have none
NoKey == <<"none", 0>>
UserIds == {<<"user", k>> : k \in 1..NumUserIds}
AutoIds == {<<"req", n>> : n \in 1..NumBindings}
RequestIds == UserIds \cup AutoIds
Names == {<<"form", k>> : k \in 1..NumNames}
PreviousKind == "cancelPrevious"
Operators == {<<"op", k>> : k \in 1..NumOperators}

VARIABLES
  bindings,           \* per operator application: the derived stream and its Subject
  subs,               \* per subscription to a derived stream
  destroyCallbacks,   \* callbacks registered with DestroyRef.onDestroy (by binding)
  ownerDestroyed,     \* the owner's DestroyRef has run its callbacks
  pendingRequests,    \* HttpRequestManager.pendingRequests : id -> Subject (binding)
  requestCounter,     \* HttpRequestManager.requestCounter
  formSubscriptions,  \* FormSubscriptionManager.subscriptions : name -> Subject
  currentRequest      \* currentRequest$ of each cancelPrevious() closure

binderVars == <<bindings, subs, destroyCallbacks, ownerDestroyed,
                pendingRequests, requestCounter, formSubscriptions, currentRequest>>

VARIABLES
  subscriptions,      \* SubscriptionManager.subscriptions : Set<Subscription>
  isDestroyed,        \* SubscriptionManager.isDestroyed
  closed,             \* Subscription.closed, per Subscription object
  teardownCount,      \* how often each Subscription's teardown has run
  lastWarnings,       \* console.warn calls made by the call made last
  lastOp,             \* the call made last
  lastArgs,           \* the Subscription objects passed to the call made last
  retBool,            \* boolean returned by the call made last
  retCount,           \* number returned by the call made last
  openAtDestroy,      \* subscriptions registered and open when ngOnDestroy first ran
  addedAfterDestroy,  \* subscriptions passed to add() after ngOnDestroy
  everUnsubscribedAll,\* unsubscribeAll() has been called directly
  released,           \* subscriptions remove() took out and add() has not put back
  lastDropped,        \* closed entries the getter called last dropped from the set
  leftVia             \* per Subscription: the call through which it last left the set

managerVars == <<subscriptions, isDestroyed, closed, teardownCount, lastWarnings,
                 lastOp, lastArgs, retBool, retCount, openAtDestroy,
                 addedAfterDestroy, everUnsubscribedAll, released, lastDropped,
                 leftVia>>

\* one top-level subscription to source.pipe(retryWithBackoff(...))
VARIABLES
  rArgs,              \* the arguments of retryWithBackoff and the source's behaviour
  rStatus,            \* the subscriber: idle, live, completed, errored, unsubscribed
  rChain,             \* maxRetries of the catchError layers around the source, innermost first
  rSourceActive,      \* a subscription to the source is open
  rCaughtAt,          \* the layer whose setTimeout is pending (0: no timer pending)
  rSubscribes,        \* how often the source has been subscribed
  rWaits,             \* the delayTime of every setTimeout made, in order
  rValues,            \* values delivered to the subscriber
  rError,             \* the error delivered to the subscriber
  rUnsubAt            \* what was going on when the subscriber unsubscribed

retryVars == <<rArgs, rStatus, rChain, rSourceActive, rCaughtAt, rSubscribes, rWaits,
               rValues, rError, rUnsubAt>>

\* SubscriptionDebuggerService, the streams it returns and their subscribers
VARIABLES
  dEnabled,           \* SubscriptionDebuggerService.isEnabled
  debugCounter,       \* SubscriptionDebuggerService.debugCounter
  dMap,               \* keys of SubscriptionDebuggerService.subscriptions
  dInfo,              \* the info object of each debug id (the map's values)
  dTimers,            \* per debug id: pending setTimeout(() => delete(id), 60000)
  dStreams,           \* per debugSubscription call: the stream it returned
  dSubs,              \* per subscriber of a returned stream
  dNow                \* Date.now()

debugVars == <<dEnabled, debugCounter, dMap, dInfo, dTimers, dStreams, dSubs, dNow>>

\* MemoryOptimizer
VARIABLES
  oEnabled,           \* MemoryOptimizer.isEnabled
  idCounter,          \* MemoryOptimizer.idCounter
  observables,        \* keys of MemoryOptimizer.observables
  sharedObservables,  \* keys of MemoryOptimizer.sharedObservables
  oReturned           \* what each call of optimize() returned, in order

optimizerVars == <<oEnabled, idCounter, observables, sharedObservables, oReturned>>

\* what the getters of SubscriptionDebuggerService returned
VARIABLES
  mCall,              \* the getter called last
  mReturned           \* what it returned

metricsVars == <<mCall, mReturned>>

\* a call of matchesRoutePattern(url, pattern)
VARIABLES
  patUrl,             \* the url argument, a string as the sequence of its characters
  patPattern,         \* the pattern argument
  patReturned         \* what the call returned, as <<result>> (<<>>: not called yet)

matchVars == <<patUrl, patPattern, patReturned>>

\* the Router and the streams of takeUntilRoute and takeWhileOnRoute
VARIABLES
  navUrl,             \* Router.url, the url of the latest NavigationEnd
  navEnds,            \* the urlAfterRedirects of every NavigationEnd so far
  untilRoute,         \* the subscribed stream source.pipe(takeUntilRoute(target))
  whileOnRoute        \* the subscribed stream source.pipe(takeWhileOnRoute(pattern))

routeVars == <<navUrl, navEnds, untilRoute, whileOnRoute>>

\* the document and the streams of the visibility operators
VARIABLES
  docHidden,          \* document.hidden
  docEvents,          \* how many visibilitychange, blur and focus events were dispatched
  whileVisible,       \* the subscribed stream source.pipe(takeWhileVisible())
  untilHidden,        \* the subscribed stream source.pipe(takeUntilHidden())
  whileHidden         \* the subscribed stream source.pipe(bufferWhileHidden(n))

visibilityVars == <<docHidden, docEvents, whileVisible, untilHidden, whileHidden>>

\* a form and one subscription to source.pipe(takeWhileFormValid(isValid))
VARIABLES
  formValid,          \* what isValid() returns when it is called now
  whileValid          \* the subscribed stream source.pipe(takeWhileFormValid(isValid))

formVars == <<formValid, whileValid>>

\* TestObservable objects and a SubscriptionTester subscribed to them
VARIABLES
  tObs,               \* per TestObservable: isCompleted, hasErrored, its subject
  tSubs,              \* per Subscription returned by SubscriptionTester.subscribe
  tList,              \* SubscriptionTester.subscriptions
  emissionCounts,     \* SubscriptionTester.emissionCounts, 0 for an absent name
  errorCounts,        \* SubscriptionTester.errorCounts
  completionCounts,   \* SubscriptionTester.completionCounts
  tEmitting,          \* the subject.next(value) in progress: observers still to be called
  tEmits              \* calls of emit() made

testVars == <<tObs, tSubs, tList, emissionCounts, errorCounts, completionCounts,
              tEmitting, tEmits>>

\* one call of MemoryOptimizer.shareWithCleanup and the observable it returned
VARIABLES
  sharing,            \* refCount, sharedObservable, cleanupTimeout and the shared stream
  shareSubs           \* per subscriber of the returned observable

shareVars == <<sharing, shareSubs>>

\* a call of SubscriptionManager.ngOnDestroy() followed through its forEach
VARIABLES
  destroying,         \* ngOnDestroy() has set the flag and has not returned
  visited             \* the entries the forEach of unsubscribeAll() has visited

teardownVars == <<destroying, visited>>

vars ==
  <<binderVars, managerVars, retryVars, debugVars, optimizerVars, metricsVars,
    matchVars, routeVars, visibilityVars, formVars, testVars, teardownVars, shareVars>>

\* what the actions of one model leave alone
nonBinderVars ==
  <<managerVars, retryVars, debugVars, optimizerVars, metricsVars, matchVars,
    routeVars, visibilityVars, formVars, testVars, teardownVars, shareVars>>

nonManagerVars ==
  <<binderVars, retryVars, debugVars, optimizerVars, metricsVars, matchVars, routeVars,
    visibilityVars, formVars, testVars, teardownVars, shareVars>>

nonRetryVars ==
  <<binderVars, managerVars, debugVars, optimizerVars, metricsVars, matchVars,
    routeVars, visibilityVars, formVars, testVars, teardownVars, shareVars>>

nonDebugVars ==
  <<binderVars, managerVars, retryVars, optimizerVars, metricsVars, matchVars,
    routeVars, visibilityVars, formVars, testVars, teardownVars, shareVars>>

nonOptimizerVars ==
  <<binderVars, managerVars, retryVars, debugVars, metricsVars, matchVars, routeVars,
    visibilityVars, formVars, testVars, teardownVars, shareVars>>

nonMetricsVars ==
  <<binderVars, managerVars, retryVars, debugVars, optimizerVars, matchVars, routeVars,
    visibilityVars, formVars, testVars, teardownVars, shareVars>>

nonMatchVars ==
  <<binderVars, managerVars, retryVars, debugVars, optimizerVars, metricsVars,
    routeVars, visibilityVars, formVars, testVars, teardownVars, shareVars>>

nonRouteVars ==
  <<binderVars, managerVars, retryVars, debugVars, optimizerVars, metricsVars,
    matchVars, visibilityVars, formVars, testVars, teardownVars, shareVars>>

nonVisibilityVars ==
  <<binderVars, managerVars, retryVars, debugVars, optimizerVars, metricsVars,
    matchVars, routeVars, formVars, testVars, teardownVars, shareVars>>

nonFormVars ==
  <<binderVars, managerVars, retryVars, debugVars, optimizerVars, metricsVars,
    matchVars, routeVars, visibilityVars, testVars, teardownVars, shareVars>>

nonTestVars ==
  <<binderVars, managerVars, retryVars, debugVars, optimizerVars, metricsVars,
    matchVars, routeVars, visibilityVars, formVars, teardownVars, shareVars>>

nonTeardownVars ==
  <<binderVars, managerVars, retryVars, debugVars, optimizerVars, metricsVars,
    matchVars, routeVars, visibilityVars, formVars, testVars, shareVars>>

\* what a step of ngOnDestroy() leaves alone
nonManagerTeardownVars ==
  <<binderVars, retryVars, debugVars, optimizerVars, metricsVars, matchVars, routeVars,
    visibilityVars, formVars, testVars, shareVars>>

nonShareVars ==
  <<binderVars, managerVars, retryVars, debugVars, optimizerVars, metricsVars,
    matchVars, routeVars, visibilityVars, formVars, testVars, teardownVars>>

\* =========================================================== binder model

UnusedBinding ==
  [kind |-> "none", mode |-> "none", unavailable |-> FALSE, warnings |-> 0,
   key |-> NoKey, subject |-> "none", observers |-> {}]

UnusedSub ==
  [binding |-> NoBinding, status |-> "unused", srcActive |-> FALSE,
   received |-> 0, dropped |-> FALSE, teardowns |-> 0,
   sawFire |-> FALSE, late |-> FALSE, fwdAfterFire |-> FALSE, endedBySource |-> FALSE]

InitBinder ==
  /\ bindings = [b \in Bindings |-> UnusedBinding]
  /\ subs = [s \in Subs |-> UnusedSub]
  /\ destroyCallbacks = {}
  /\ ownerDestroyed = FALSE
  /\ pendingRequests = [k \in RequestIds |-> NoBinding]
  /\ requestCounter = 0
  /\ formSubscriptions = [n \in Names |-> NoBinding]
  /\ currentRequest = [o \in Operators |-> NoBinding]

\* binding slots and subscription slots are taken in order
FreshBinding(b) ==
  /\ bindings[b].kind = "none"
  /\ \A c \in Bindings : c < b => bindings[c].kind # "none"

FreshSub(s) ==
  /\ subs[s].status = "unused"
  /\ \A t \in Subs : t < s => subs[t].status # "unused"


\* ---- applying an operator (the function returned by the operator factory)

BoundBinding(kind, key) ==
  [kind |-> kind, mode |-> "bound", unavailable |-> FALSE, warnings |-> 0,
   key |-> key, subject |-> "open", observers |-> {}]

\* if (!x) { console.warn(...); return source; }
PassThroughBinding(kind) ==
  [kind |-> kind, mode |-> "passthrough", unavailable |-> TRUE, warnings |-> 1,
   key |-> NoKey, subject |-> "none", observers |-> {}]

\* inject(DestroyRef) without { optional: true } throws when nothing is provided
ThrewBinding(kind) ==
  [kind |-> kind, mode |-> "threw", unavailable |-> TRUE, warnings |-> 0,
   key |-> NoKey, subject |-> "none", observers |-> {}]

\* inject(Router | DOCUMENT) succeeded: the derived stream is built on the
\* router's / document's events (its run-time behaviour is not part of SpecBinder)
GatedBinding(kind) ==
  [kind |-> kind, mode |-> "gated", unavailable |-> FALSE, warnings |-> 0,
   key |-> NoKey, subject |-> "none", observers |-> {}]

\* destroy$ = new Subject(); ref.onDestroy(() => {...}); source.pipe(takeUntil(destroy$))
BindToDestroyRef(b, kind) ==
  /\ bindings' = [bindings EXCEPT ![b] = BoundBinding(kind, NoKey)]
  /\ destroyCallbacks' = destroyCallbacks \cup {b}

\* takeUntilDestroyed(destroyRef?)(source); ref says where the DestroyRef comes from:
\* "explicit" (argument), "injected" (inject succeeds), "none" (no argument, no provider)
TakeUntilDestroyed(b, ref) ==
  /\ FreshBinding(b)
  /\ ~ownerDestroyed
  /\ IF ref = "none"
       THEN /\ bindings' = [bindings EXCEPT ![b] = ThrewBinding("takeUntilDestroyed")]
            /\ UNCHANGED destroyCallbacks
       ELSE BindToDestroyRef(b, "takeUntilDestroyed")
  /\ UNCHANGED <<subs, ownerDestroyed, pendingRequests, requestCounter, currentRequest,
                 formSubscriptions, nonBinderVars>>

\* shared body of cancelOnDestroy()(source) and takeUntilFormDestroyed()(source)
OptionalDestroyOperator(b, kind, available) ==
  /\ FreshBinding(b)
  /\ ~ownerDestroyed
  /\ IF ~available
       THEN /\ bindings' = [bindings EXCEPT ![b] = PassThroughBinding(kind)]
            /\ UNCHANGED destroyCallbacks
       ELSE BindToDestroyRef(b, kind)
  /\ UNCHANGED <<subs, ownerDestroyed, pendingRequests, requestCounter, currentRequest,
                 formSubscriptions, nonBinderVars>>

CancelOnDestroy(b, available) ==
  OptionalDestroyOperator(b, "cancelOnDestroy", available)

TakeUntilFormDestroyed(b, available) ==
  OptionalDestroyOperator(b, "takeUntilFormDestroyed", available)

\* shared head of the route and visibility operators: inject(X, { optional: true })
GateOperator(b, kind, available) ==
  /\ FreshBinding(b)
  /\ bindings' = [bindings EXCEPT ![b] =
                    IF available THEN GatedBinding(kind) ELSE PassThroughBinding(kind)]
  /\ UNCHANGED <<subs, destroyCallbacks, ownerDestroyed, pendingRequests,
                 requestCounter, currentRequest, formSubscriptions, nonBinderVars>>

TakeUntilRoute(b, available) == GateOperator(b, "takeUntilRoute", available)

TakeWhileOnRoute(b, available) == GateOperator(b, "takeWhileOnRoute", available)

TakeWhileVisible(b, available) == GateOperator(b, "takeWhileVisible", available)

TakeUntilHidden(b, available) == GateOperator(b, "takeUntilHidden", available)

\* HttpRequestManager.createCancellableRequest(requestFn, requestId?)
\* idArg = NoKey stands for an absent requestId
CreateCancellableRequest(b, idArg) ==
  LET auto == idArg = NoKey
      id == IF auto THEN <<"req", requestCounter + 1>> ELSE idArg
  IN /\ FreshBinding(b)
     /\ requestCounter' = IF auto THEN requestCounter + 1 ELSE requestCounter
     /\ pendingRequests' = [pendingRequests EXCEPT ![id] = b]
     /\ bindings' = [bindings EXCEPT ![b] = BoundBinding(RequestKind, id)]
     /\ UNCHANGED <<subs, destroyCallbacks, ownerDestroyed, formSubscriptions,
                    currentRequest, nonBinderVars>>

\* FormSubscriptionManager.manage(source, name)
Manage(b, name) ==
  /\ FreshBinding(b)
  /\ formSubscriptions' = [formSubscriptions EXCEPT ![name] = b]
  /\ bindings' = [bindings EXCEPT ![b] = BoundBinding(ManageKind, name)]
  /\ UNCHANGED <<subs, destroyCallbacks, ownerDestroyed, pendingRequests,
                 requestCounter, currentRequest,
                 nonBinderVars>>


\* ---- rxjs plumbing shared by every bound stream: source.pipe(takeUntil(subject$))

KindOf(s) == bindings[subs[s].binding].kind

KeyOf(s) == bindings[subs[s].binding].key

\* finalize(() => this.pendingRequests.delete(id)) of the request streams among S:
\* the ids it deletes
FinalizedIds(S) == {KeyOf(s) : s \in {t \in S : KindOf(t) = RequestKind}}

DeleteIds(K) == [k \in RequestIds |-> IF k \in K THEN NoBinding ELSE pendingRequests[k]]

\* finalize(() => { if (currentRequest$ === cancelSubject) currentRequest$ = null })
\* of the cancelPrevious streams among S: the Subjects it compares with
FinalizedSubjects(S) == {subs[s].binding : s \in {t \in S : KindOf(t) = PreviousKind}}

CurrentAfterFinalize(S) ==
  [o \in Operators |->
     IF currentRequest[o] \in FinalizedSubjects(S) THEN NoBinding ELSE currentRequest[o]]

\* the subscriber's record once its subscription ends (complete, error or
\* unsubscribe): the source subscription is torn down with it
Ended(r, status, bySource) ==
  [r EXCEPT !.status = status, !.srcActive = FALSE, !.teardowns = @ + 1,
            !.endedBySource = bySource]

\* subject$.next() on the Subjects of B: a stopped Subject notifies nobody
Fired(B) == {b \in B : bindings[b].subject = "open"}

\* mutant: the callback only calls subject$.complete(), never subject$.next()
NotifiedNone(B) == {}

\* the subscriptions whose takeUntil receives the notification of subject$.next()
Notified(B) == UNION {bindings[b].observers : b \in Fired(B)}

\* subject$.next(); subject$.complete() on every Subject of B
BindingsAfterFire(B) ==
  [b \in Bindings |->
     IF b \in Fired(B)
       THEN [bindings[b] EXCEPT !.subject = "stopped", !.observers = {}]
       ELSE bindings[b]]

\* mutant: a Subject that has completed still notifies, and a subscriber that has
\* ended is notified again
SubsNotifiedEveryTime(B) ==
  [s \in Subs |->
     IF subs[s].status # "unused" /\ subs[s].binding \in B
       THEN Ended([subs[s] EXCEPT !.sawFire = TRUE], "completed", FALSE)
       ELSE subs[s]]

\* takeUntil completes each notified subscriber; sawFire records the subscriptions
\* that were live when their Subject fired
SubsAfterFire(B) ==
  [s \in Subs |->
     LET r == IF subs[s].status = "live" /\ subs[s].binding \in Fired(B)
                THEN [subs[s] EXCEPT !.sawFire = TRUE]
                ELSE subs[s]
     IN IF s \in Notified(B) /\ r.status = "live"
          THEN Ended(r, "completed", FALSE)
          ELSE r]

\* derived$.subscribe(observer)
Subscribe(s, b) ==
  /\ FreshSub(s)
  /\ bindings[b].mode \in {"bound", "passthrough"}
  /\ LET open == bindings[b].subject = "open"
         stopped == bindings[b].subject = "stopped"
     IN /\ subs' = [subs EXCEPT ![s] =
                      [UnusedSub EXCEPT !.binding = b, !.status = "live",
                                        !.srcActive = TRUE, !.late = stopped]]
        \* takeUntil subscribes to the notifier first; a stopped Subject only
        \* completes the inner subscriber, which takeUntil ignores
        /\ bindings' = [bindings EXCEPT ![b].observers =
                          IF open THEN @ \cup {s} ELSE @]
  /\ UNCHANGED <<destroyCallbacks, ownerDestroyed, pendingRequests,
                 requestCounter, currentRequest, formSubscriptions, nonBinderVars>>

\* the source execution of subscription s pushes a value; a stopped subscriber
\* drops it
SourceEmit(s) ==
  /\ subs[s].status # "unused"
  /\ IF subs[s].status = "live" THEN subs[s].received < MaxValues
                                ELSE ~subs[s].dropped
  /\ subs' = [subs EXCEPT ![s] =
                IF @.status = "live"
                  THEN [@ EXCEPT !.received = @ + 1,
                                 !.fwdAfterFire =
                                    @ \/ bindings[subs[s].binding].subject = "stopped"]
                  ELSE [@ EXCEPT !.dropped = TRUE]]
  /\ UNCHANGED <<bindings, destroyCallbacks, ownerDestroyed, pendingRequests,
                 requestCounter, currentRequest, formSubscriptions, nonBinderVars>>

\* the subscription of s ends and is detached from its Subject; a request
\* stream and a cancelPrevious stream run their finalize callback (the
\* catchError of a request stream rethrows every error, as the same error or
\* as Error('Request cancelled'))
Finish(s, status, bySource) ==
  /\ subs' = [subs EXCEPT ![s] = Ended(@, status, bySource)]
  /\ bindings' = [bindings EXCEPT ![subs[s].binding].observers = @ \ {s}]
  /\ pendingRequests' = DeleteIds(FinalizedIds({s}))
  /\ currentRequest' = CurrentAfterFinalize({s})
  /\ UNCHANGED <<destroyCallbacks, ownerDestroyed, requestCounter, formSubscriptions,
                 nonBinderVars>>

\* the source completes on its own
SourceComplete(s) ==
  /\ subs[s].status = "live"
  /\ Finish(s, "completed", TRUE)

\* the source fails on its own
SourceError(s) ==
  /\ subs[s].status = "live"
  /\ Finish(s, "errored", TRUE)

\* the subscriber calls subscription.unsubscribe(); a closed subscription ignores it
Unsubscribe(s) ==
  /\ subs[s].status # "unused"
  /\ IF subs[s].status = "live"
       THEN Finish(s, "unsubscribed", FALSE)
       ELSE UNCHANGED vars

\* ---- firing the Subjects

\* the owner is destroyed: DestroyRef runs every registered callback once,
\* each callback doing destroy$.next(); destroy$.complete()
OwnerDestroy ==
  /\ ~ownerDestroyed
  /\ ownerDestroyed' = TRUE
  /\ bindings' = BindingsAfterFire(destroyCallbacks)
  /\ subs' = SubsAfterFire(destroyCallbacks)
  /\ destroyCallbacks' = {}
  /\ UNCHANGED <<pendingRequests, requestCounter, currentRequest, formSubscriptions,
                 nonBinderVars>>

\* the cancel closure returned by createCancellableRequest for binding b
Cancel(b) ==
  /\ bindings[b].kind = RequestKind
  /\ bindings' = BindingsAfterFire({b})
  /\ subs' = SubsAfterFire({b})
  /\ pendingRequests' = DeleteIds(FinalizedIds(Notified({b})) \cup {bindings[b].key})
  /\ UNCHANGED <<destroyCallbacks, ownerDestroyed, requestCounter, currentRequest,
                 formSubscriptions, nonBinderVars>>

\* HttpRequestManager.cancelRequest(requestId)
CancelRequest(id) ==
  LET b == pendingRequests[id]
  IN IF b # NoBinding
       THEN /\ bindings' = BindingsAfterFire({b})
            /\ subs' = SubsAfterFire({b})
            /\ pendingRequests' = DeleteIds(FinalizedIds(Notified({b})) \cup {id})
            /\ UNCHANGED <<destroyCallbacks, ownerDestroyed, requestCounter, currentRequest,
                           formSubscriptions, nonBinderVars>>
       ELSE UNCHANGED vars

\* HttpRequestManager.cancelAllRequests()
CancelAllRequests ==
  LET B == {pendingRequests[k] : k \in RequestIds} \ {NoBinding}
  IN /\ bindings' = BindingsAfterFire(B)
     /\ subs' = SubsAfterFire(B)
     /\ pendingRequests' = [k \in RequestIds |-> NoBinding]
     /\ UNCHANGED <<destroyCallbacks, ownerDestroyed, requestCounter, currentRequest,
                    formSubscriptions,
                    nonBinderVars>>

\* FormSubscriptionManager.unsubscribe(name)
FormUnsubscribe(name) ==
  LET b == formSubscriptions[name]
  IN IF b # NoBinding
       THEN /\ bindings' = BindingsAfterFire({b})
            /\ subs' = SubsAfterFire({b})
            /\ formSubscriptions' = [formSubscriptions EXCEPT ![name] = NoBinding]
            /\ UNCHANGED <<destroyCallbacks, ownerDestroyed, pendingRequests,
                           requestCounter, currentRequest, nonBinderVars>>
       ELSE UNCHANGED vars

\* FormSubscriptionManager.unsubscribeAll()
FormUnsubscribeAll ==
  LET B == {formSubscriptions[n] : n \in Names} \ {NoBinding}
  IN /\ bindings' = BindingsAfterFire(B)
     /\ subs' = SubsAfterFire(B)
     /\ formSubscriptions' = [n \in Names |-> NoBinding]
     /\ UNCHANGED <<destroyCallbacks, ownerDestroyed, pendingRequests,
                    requestCounter, currentRequest,
                    nonBinderVars>>

\* FormSubscriptionManager.getActiveCount(): this.subscriptions.size
GetActiveCount == Cardinality({n \in Names : formSubscriptions[n] # NoBinding})

\* the function returned by one call of cancelPrevious(), applied to a source;
\* o names the closure. currentRequest$.next() completes the live subscribers of
\* the previous stream, whose finalize callbacks run inside that call and set
\* currentRequest$ to null, so that the currentRequest$.complete() that follows
\* throws a TypeError and no stream is returned.
CancelPrevious(b, o) ==
  LET prev == currentRequest[o]
      hit == IF prev = NoBinding THEN {} ELSE Notified({prev})
  IN /\ FreshBinding(b)
     /\ IF prev = NoBinding
          THEN /\ bindings' = [bindings EXCEPT ![b] = BoundBinding(PreviousKind, o)]
               /\ currentRequest' = [currentRequest EXCEPT ![o] = b]
               /\ UNCHANGED subs
          ELSE IF hit = {}
            THEN /\ bindings' = [BindingsAfterFire({prev}) EXCEPT
                                  ![b] = BoundBinding(PreviousKind, o)]
                 /\ currentRequest' = [currentRequest EXCEPT ![o] = b]
                 /\ subs' = SubsAfterFire({prev})
            ELSE /\ bindings' = [bindings EXCEPT ![prev].observers = {},
                                                 ![b] = ThrewBinding(PreviousKind)]
                 /\ currentRequest' = [currentRequest EXCEPT ![o] = NoBinding]
                 /\ subs' = SubsAfterFire({prev})
     /\ UNCHANGED <<destroyCallbacks, ownerDestroyed, pendingRequests, requestCounter,
                    formSubscriptions, nonBinderVars>>

\* the binders built on a single-shot Subject: application, subscription, firing
NextBinder ==
  \/ \E b \in Bindings, ref \in {"explicit", "injected", "none"} : TakeUntilDestroyed(b, ref)
  \/ \E b \in Bindings, available \in BOOLEAN : CancelOnDestroy(b, available)
  \/ \E b \in Bindings, available \in BOOLEAN : TakeUntilFormDestroyed(b, available)
  \/ \E b \in Bindings, idArg \in UserIds \cup {NoKey} : CreateCancellableRequest(b, idArg)
  \/ \E b \in Bindings, name \in Names : Manage(b, name)
  \/ \E s \in Subs, b \in Bindings : Subscribe(s, b)
  \/ \E s \in Subs : SourceEmit(s)
  \/ \E s \in Subs : SourceComplete(s)
  \/ \E s \in Subs : SourceError(s)
  \/ \E s \in Subs : Unsubscribe(s)
  \/ OwnerDestroy
  \/ \E b \in Bindings : Cancel(b)
  \/ \E id \in RequestIds : CancelRequest(id)
  \/ CancelAllRequests
  \/ \E name \in Names : FormUnsubscribe(name)
  \/ FormUnsubscribeAll

\* every lifecycle-binding operator applied with or without its lifecycle
\* source, and the streams it returns being used
NextOperators ==
  \/ \E b \in Bindings, ref \in {"explicit", "injected", "none"} : TakeUntilDestroyed(b, ref)
  \/ \E b \in Bindings, available \in BOOLEAN : CancelOnDestroy(b, available)
  \/ \E b \in Bindings, available \in BOOLEAN : TakeUntilFormDestroyed(b, available)
  \/ \E b \in Bindings, available \in BOOLEAN : TakeUntilRoute(b, available)
  \/ \E b \in Bindings, available \in BOOLEAN : TakeWhileOnRoute(b, available)
  \/ \E b \in Bindings, available \in BOOLEAN : TakeWhileVisible(b, available)
  \/ \E b \in Bindings, available \in BOOLEAN : TakeUntilHidden(b, available)
  \/ \E s \in Subs, b \in Bindings : Subscribe(s, b)
  \/ \E s \in Subs : SourceEmit(s)
  \/ \E s \in Subs : SourceComplete(s)
  \/ \E s \in Subs : SourceError(s)
  \/ \E s \in Subs : Unsubscribe(s)
  \/ OwnerDestroy

\* streams built by cancelPrevious() closures and their use
NextSupersede ==
  \/ \E b \in Bindings, o \in Operators : CancelPrevious(b, o)
  \/ \E s \in Subs, b \in Bindings : Subscribe(s, b)
  \/ \E s \in Subs : SourceEmit(s)
  \/ \E s \in Subs : SourceComplete(s)
  \/ \E s \in Subs : SourceError(s)
  \/ \E s \in Subs : Unsubscribe(s)

\* ========================================================== manager model

Managed == 1..NumManaged

InitManager ==
  /\ subscriptions = {}
  /\ isDestroyed = FALSE
  /\ closed = [s \in Managed |-> FALSE]
  /\ teardownCount = [s \in Managed |-> 0]
  /\ lastWarnings = 0
  /\ lastOp = "new"
  /\ lastArgs = {}
  /\ retBool = FALSE
  /\ retCount = 0
  /\ openAtDestroy = {}
  /\ addedAfterDestroy = {}
  /\ everUnsubscribedAll = FALSE
  /\ released = {}
  /\ lastDropped = {}
  /\ leftVia = [s \in Managed |-> "none"]

\* rxjs Subscription.unsubscribe() on each member of S: a closed Subscription
\* returns at once, an open one sets closed and runs its teardown
ClosedAfter(S) == [s \in Managed |-> closed[s] \/ s \in S]

TeardownsAfter(S) ==
  [s \in Managed |-> IF s \in S /\ ~closed[s] THEN teardownCount[s] + 1
                                            ELSE teardownCount[s]]

\* the entries in gone leave the set through the call named by means
Departed(gone, means) ==
  leftVia' = [s \in Managed |-> IF s \in gone THEN means ELSE leftVia[s]]

\* what a call records about itself
Called(op, args, warnings, b, n, dropped) ==
  /\ lastOp' = op
  /\ lastArgs' = args
  /\ lastWarnings' = warnings
  /\ retBool' = b
  /\ retCount' = n
  /\ lastDropped' = dropped

\* mutant: add() without the isDestroyed branch
AddIgnoringDestroyed(S) ==
  /\ subscriptions' = subscriptions \cup {s \in S : ~closed[s]}
  /\ Called("add", S, 0, FALSE, 0, {})
  /\ addedAfterDestroy' = IF isDestroyed THEN addedAfterDestroy \cup S
                                          ELSE addedAfterDestroy
  /\ released' = released \ subscriptions'
  /\ UNCHANGED <<closed, teardownCount, isDestroyed, openAtDestroy,
                 everUnsubscribedAll, leftVia, nonManagerVars>>

\* mutant: add() after destroy warns but does not unsubscribe what it is given
AddWarnOnly(S) ==
  /\ IF isDestroyed
       THEN /\ addedAfterDestroy' = addedAfterDestroy \cup S
            /\ Called("add", S, 1, FALSE, 0, {})
            /\ UNCHANGED subscriptions
       ELSE /\ subscriptions' = subscriptions \cup {s \in S : ~closed[s]}
            /\ Called("add", S, 0, FALSE, 0, {})
            /\ UNCHANGED addedAfterDestroy
  /\ released' = released \ subscriptions'
  /\ UNCHANGED <<closed, teardownCount, isDestroyed, openAtDestroy,
                 everUnsubscribedAll, leftVia, nonManagerVars>>

\* mutant: add() registers what it is given without looking at closed
AddClosedToo(S) ==
  /\ IF isDestroyed
       THEN /\ closed' = ClosedAfter(S)
            /\ teardownCount' = TeardownsAfter(S)
            /\ addedAfterDestroy' = addedAfterDestroy \cup S
            /\ Called("add", S, 1, FALSE, 0, {})
            /\ UNCHANGED subscriptions
       ELSE /\ subscriptions' = subscriptions \cup S
            /\ Called("add", S, 0, FALSE, 0, {})
            /\ UNCHANGED <<closed, teardownCount, addedAfterDestroy>>
  /\ released' = released \ subscriptions'
  /\ UNCHANGED <<isDestroyed, openAtDestroy, everUnsubscribedAll, leftVia,
                 nonManagerVars>>

\* SubscriptionManager.add(...subscriptions)
Add(S) ==
  /\ IF isDestroyed
       THEN /\ closed' = ClosedAfter(S)
            /\ teardownCount' = TeardownsAfter(S)
            /\ addedAfterDestroy' = addedAfterDestroy \cup S
            /\ Called("add", S, 1, FALSE, 0, {})
            /\ UNCHANGED subscriptions
       ELSE /\ subscriptions' = subscriptions \cup {s \in S : ~closed[s]}
            /\ Called("add", S, 0, FALSE, 0, {})
            /\ UNCHANGED <<closed, teardownCount, addedAfterDestroy>>
  /\ released' = released \ subscriptions'
  /\ UNCHANGED <<isDestroyed, openAtDestroy, everUnsubscribedAll, leftVia,
                 nonManagerVars>>

\* mutant: remove() also unsubscribes what it removes
RemoveAndUnsubscribe(s) ==
  /\ subscriptions' = subscriptions \ {s}
  /\ closed' = ClosedAfter(subscriptions \cap {s})
  /\ teardownCount' = TeardownsAfter(subscriptions \cap {s})
  /\ Called("remove", {s}, 0, FALSE, 0, {})
  /\ released' = released \cup (subscriptions \cap {s})
  /\ Departed(subscriptions \cap {s}, "remove")
  /\ UNCHANGED <<isDestroyed, openAtDestroy, addedAfterDestroy, everUnsubscribedAll,
                 nonManagerVars>>

\* SubscriptionManager.remove(subscription)
Remove(s) ==
  /\ subscriptions' = subscriptions \ {s}
  /\ Called("remove", {s}, 0, FALSE, 0, {})
  /\ released' = released \cup (subscriptions \cap {s})
  /\ Departed(subscriptions \cap {s}, "remove")
  /\ UNCHANGED <<isDestroyed, closed, teardownCount, openAtDestroy,
                 addedAfterDestroy, everUnsubscribedAll, nonManagerVars>>

\* mutant: unsubscribeAll() clears the set without unsubscribing its members
ClearOnly ==
  /\ subscriptions' = {}
  /\ Departed(subscriptions, "unsubscribeAll")
  /\ UNCHANGED <<closed, teardownCount>>

\* body of SubscriptionManager.unsubscribeAll()
UnsubscribeAllEffect ==
  LET open == {s \in subscriptions : ~closed[s]}
  IN /\ closed' = ClosedAfter(open)
     /\ teardownCount' = TeardownsAfter(open)
     /\ subscriptions' = {}
     /\ Departed(subscriptions, "unsubscribeAll")

\* a direct call of unsubscribeAll()
UnsubscribeAll ==
  /\ UnsubscribeAllEffect
  /\ everUnsubscribedAll' = TRUE
  /\ Called("unsubscribeAll", {}, 0, FALSE, 0, {})
  /\ UNCHANGED <<isDestroyed, openAtDestroy, addedAfterDestroy, released,
                 nonManagerVars>>

\* the filter of the activeCount getter
ActiveSubscriptions == {s \in subscriptions : ~closed[s]}

\* mutant: the getter returns the size of the set, closed entries included
SizeOfSet == Cardinality(subscriptions)

\* the value the activeCount getter returns
ActiveCountValue == Cardinality(ActiveSubscriptions)

\* the clean-up of the activeCount getter
Reconciled ==
  IF Cardinality(ActiveSubscriptions) # Cardinality(subscriptions)
    THEN ActiveSubscriptions
    ELSE subscriptions

\* get activeCount
ActiveCount ==
  /\ subscriptions' = Reconciled
  /\ Departed(subscriptions \ Reconciled, "reconciliation")
  /\ Called("activeCount", {}, 0, FALSE, ActiveCountValue, subscriptions \ Reconciled)
  /\ UNCHANGED <<isDestroyed, closed, teardownCount, openAtDestroy,
                 addedAfterDestroy, everUnsubscribedAll, released, nonManagerVars>>

\* get hasActiveSubscriptions
HasActiveSubscriptions ==
  /\ subscriptions' = Reconciled
  /\ Departed(subscriptions \ Reconciled, "reconciliation")
  /\ Called("hasActiveSubscriptions", {}, 0, ActiveCountValue > 0, 0,
            subscriptions \ Reconciled)
  /\ UNCHANGED <<isDestroyed, closed, teardownCount, openAtDestroy,
                 addedAfterDestroy, everUnsubscribedAll, released, nonManagerVars>>

\* SubscriptionManager.ngOnDestroy()
NgOnDestroy ==
  /\ isDestroyed' = TRUE
  /\ UnsubscribeAllEffect
  /\ openAtDestroy' = IF isDestroyed THEN openAtDestroy ELSE ActiveSubscriptions
  /\ Called("ngOnDestroy", {}, 0, FALSE, 0, {})
  /\ UNCHANGED <<addedAfterDestroy, everUnsubscribedAll, released, nonManagerVars>>

\* mutant: safeUnsubscribe() without the closed check
SafeUnsubscribeUnguarded(S) ==
  /\ IF S # {}
       THEN /\ closed' = ClosedAfter(S)
            /\ teardownCount' = TeardownsAfter(S)
            /\ Called("safeUnsubscribe", S, 0, TRUE, 0, {})
       ELSE /\ Called("safeUnsubscribe", S, 0, FALSE, 0, {})
            /\ UNCHANGED <<closed, teardownCount>>
  /\ UNCHANGED <<subscriptions, isDestroyed, openAtDestroy, addedAfterDestroy, released,
                 everUnsubscribedAll, leftVia, nonManagerVars>>

\* safeUnsubscribe(subscription); S = {} stands for null or undefined,
\* S = {s} for the Subscription s
SafeUnsubscribe(S) ==
  /\ IF S # {} /\ \A s \in S : ~closed[s]
       THEN /\ closed' = ClosedAfter(S)
            /\ teardownCount' = TeardownsAfter(S)
            /\ Called("safeUnsubscribe", S, 0, TRUE, 0, {})
       ELSE /\ Called("safeUnsubscribe", S, 0, FALSE, 0, {})
            /\ UNCHANGED <<closed, teardownCount>>
  /\ UNCHANGED <<subscriptions, isDestroyed, openAtDestroy, addedAfterDestroy, released,
                 everUnsubscribedAll, leftVia, nonManagerVars>>

NextManager ==
  \/ \E S \in SUBSET Managed : Add(S)
  \/ \E s \in Managed : Remove(s)
  \/ UnsubscribeAll
  \/ ActiveCount
  \/ HasActiveSubscriptions
  \/ NgOnDestroy
  \/ \E S \in {{}} \cup {{s} : s \in Managed} : SafeUnsubscribe(S)

\* ---- ngOnDestroy() step by step: what a teardown callback calls on the same
\* manager runs between two steps

InitTeardown ==
  /\ destroying = FALSE
  /\ visited = {}

\* mutant: ngOnDestroy() calls unsubscribeAll() before it sets isDestroyed
DestroyBeginsUnflagged ==
  /\ ~destroying
  /\ destroying' = TRUE
  /\ visited' = {}
  /\ openAtDestroy' = IF isDestroyed THEN openAtDestroy ELSE ActiveSubscriptions
  /\ Called("ngOnDestroy", {}, 0, FALSE, 0, {})
  /\ UNCHANGED <<isDestroyed, subscriptions, closed, teardownCount, addedAfterDestroy,
                 everUnsubscribedAll, released, leftVia, nonManagerTeardownVars>>

\* ngOnDestroy(): this.isDestroyed = true, and unsubscribeAll() is entered
DestroyBegins ==
  /\ ~destroying
  /\ destroying' = TRUE
  /\ visited' = {}
  /\ isDestroyed' = TRUE
  /\ openAtDestroy' = IF isDestroyed THEN openAtDestroy ELSE ActiveSubscriptions
  /\ Called("ngOnDestroy", {}, 0, FALSE, 0, {})
  /\ UNCHANGED <<subscriptions, closed, teardownCount, addedAfterDestroy,
                 everUnsubscribedAll, released, leftVia, nonManagerTeardownVars>>

\* the forEach of unsubscribeAll() reaches s: an open subscription is
\* unsubscribed, which runs its teardown callback
DestroyVisits(s) ==
  /\ destroying
  /\ s \in subscriptions \ visited
  /\ visited' = visited \cup {s}
  /\ closed' = ClosedAfter({s})
  /\ teardownCount' = TeardownsAfter({s})
  /\ UNCHANGED <<subscriptions, isDestroyed, lastWarnings, lastOp, lastArgs, retBool,
                 retCount, openAtDestroy, addedAfterDestroy, everUnsubscribedAll,
                 released, lastDropped, leftVia, destroying, nonManagerTeardownVars>>

\* the forEach is through: this.subscriptions.clear(), and ngOnDestroy() returns
DestroyEnds ==
  /\ destroying
  /\ subscriptions \subseteq visited
  /\ destroying' = FALSE
  /\ visited' = {}
  /\ subscriptions' = {}
  /\ Departed(subscriptions, "unsubscribeAll")
  /\ UNCHANGED <<isDestroyed, closed, teardownCount, lastWarnings, lastOp, lastArgs,
                 retBool, retCount, openAtDestroy, addedAfterDestroy,
                 everUnsubscribedAll, released, lastDropped, nonManagerTeardownVars>>

\* the manager with ngOnDestroy() followed step by step; add() and remove()
\* are called at any moment, from a teardown callback included
NextTeardown ==
  \/ \E S \in SUBSET Managed : Add(S)
  \/ \E s \in Managed : Remove(s)
  \/ DestroyBegins
  \/ \E s \in Managed : DestroyVisits(s)
  \/ DestroyEnds

\* ============================================================ retry model

\* the exponent base of Math.pow(2, 3 - maxRetries)
BackoffOffset == 3

InitialDelays == {100, 200}
MaxDelays == {300, 1000}
Always == MaxAttempts + 1      \* a source that fails on every subscription
NoError == "none"
SourceErrors == {"HttpErrorResponse"}

NoArgs == [maxRetries |-> 0, initialDelay |-> 0, maxDelay |-> 0, failing |-> 0,
           error |-> NoError]

InitRetry ==
  /\ rArgs = NoArgs
  /\ rStatus = "idle"
  /\ rChain = <<>>
  /\ rSourceActive = FALSE
  /\ rCaughtAt = 0
  /\ rSubscribes = 0
  /\ rWaits = <<>>
  /\ rValues = 0
  /\ rError = NoError
  /\ rUnsubAt = "none"

RECURSIVE Pow2(_)
Pow2(e) == IF e = 0 THEN 1 ELSE 2 * Pow2(e - 1)

Min(a, b) == IF a <= b THEN a ELSE b

\* initialDelay * Math.pow(2, e); for e < 0 the delays of InitialDelays divide exactly
TimesPow2(d, e) == IF e >= 0 THEN d * Pow2(e) ELSE d \div Pow2(0 - e)

\* const delayTime = Math.min(initialDelay * Math.pow(2, 3 - maxRetries), maxDelay)
DelayTime(maxRetries, initialDelay, maxDelay) ==
  Min(TimesPow2(initialDelay, BackoffOffset - maxRetries), maxDelay)

\* source.pipe(retryWithBackoff(maxRetries, initialDelay, maxDelay)).subscribe(observer)
\* on a source whose first `failing` subscriptions fail with `error`
RetrySubscribe(maxRetries, initialDelay, maxDelay, failing, error) ==
  /\ rStatus = "idle"
  /\ rArgs' = [maxRetries |-> maxRetries, initialDelay |-> initialDelay,
               maxDelay |-> maxDelay, failing |-> failing, error |-> error]
  /\ rStatus' = "live"
  /\ rChain' = <<maxRetries>>
  /\ rSourceActive' = TRUE
  /\ rSubscribes' = 1
  /\ UNCHANGED <<rCaughtAt, rWaits, rValues, rError, rUnsubAt, nonRetryVars>>

\* the layers an error passes on its way out: a layer with maxRetries <= 0
\* rethrows (throwError(() => error)), the first other layer handles it
Catchers == {i \in 1..Len(rChain) : rChain[i] > 0}

Catcher == CHOOSE i \in Catchers : \A j \in Catchers : i <= j

\* the current subscription to the source fails on this attempt
FailsNow == rSubscribes <= rArgs.failing

\* the source errors: the handling layer tears its source subscription down and
\* subscribes the subscriber to new Observable(... setTimeout(..., delayTime) ...);
\* with no handling layer the error reaches the subscriber
RetrySourceFails ==
  /\ rSourceActive
  /\ FailsNow
  /\ rSourceActive' = FALSE
  /\ IF Catchers = {}
       THEN /\ rStatus' = "errored"
            /\ rError' = rArgs.error
            /\ UNCHANGED <<rCaughtAt, rWaits>>
       ELSE /\ rCaughtAt' = Catcher
            /\ rWaits' = Append(rWaits, DelayTime(rChain[Catcher], rArgs.initialDelay,
                                                 rArgs.maxDelay))
            /\ UNCHANGED <<rStatus, rError>>
  /\ UNCHANGED <<rArgs, rChain, rSubscribes, rValues, rUnsubAt, nonRetryVars>>

\* the setTimeout callback: caught.pipe(retryWithBackoff(maxRetries - 1, ...))
\* .subscribe(subscriber). caught is catchError(selector)(source), the handling
\* layer itself applied to its own source, so the new layer goes on top of the
\* handling one; the layers outside it stay subscribed. A closed subscriber
\* tears the new source subscription down as soon as it is made.
RetryTimerFires ==
  /\ rCaughtAt # 0
  /\ rSubscribes < MaxAttempts
  /\ rChain' = SubSeq(rChain, 1, rCaughtAt) \o <<rChain[rCaughtAt] - 1>>
                 \o SubSeq(rChain, rCaughtAt + 1, Len(rChain))
  /\ rCaughtAt' = 0
  /\ rSubscribes' = rSubscribes + 1
  /\ rSourceActive' = (rStatus = "live")
  /\ UNCHANGED <<rArgs, rStatus, rWaits, rValues, rError, rUnsubAt, nonRetryVars>>

\* the source emits its value and completes
RetrySourceSucceeds ==
  /\ rSourceActive
  /\ ~FailsNow
  /\ rSourceActive' = FALSE
  /\ rValues' = rValues + 1
  /\ rStatus' = "completed"
  /\ UNCHANGED <<rArgs, rChain, rCaughtAt, rSubscribes, rWaits, rError, rUnsubAt,
                 nonRetryVars>>

\* what the subscriber was in when it unsubscribed
UnsubscribedAt ==
  IF rCaughtAt # 0 THEN "wait" ELSE IF rSubscribes > 1 THEN "retry" ELSE "first"

\* mutant: the timer observable returns no teardown, the timer stays armed
RetryUnsubscribeKeepingTimer ==
  /\ rStatus = "live"
  /\ rStatus' = "unsubscribed"
  /\ rSourceActive' = FALSE
  /\ rUnsubAt' = UnsubscribedAt
  /\ UNCHANGED <<rArgs, rChain, rCaughtAt, rSubscribes, rWaits, rValues, rError,
                 nonRetryVars>>

\* subscription.unsubscribe(): the open source subscription is torn down and
\* the teardown of the timer observable runs clearTimeout(timeoutId)
RetryUnsubscribe ==
  /\ rStatus = "live"
  /\ rStatus' = "unsubscribed"
  /\ rSourceActive' = FALSE
  /\ rCaughtAt' = 0
  /\ rUnsubAt' = UnsubscribedAt
  /\ UNCHANGED <<rArgs, rChain, rSubscribes, rWaits, rValues, rError, nonRetryVars>>

NextRetry ==
  \/ \E maxRetries \in 0..MaxRetriesArg, initialDelay \in InitialDelays,
        maxDelay \in MaxDelays, failing \in (0..MaxFailures) \cup {Always},
        error \in SourceErrors :
       RetrySubscribe(maxRetries, initialDelay, maxDelay, failing, error)
  \/ RetrySourceFails
  \/ RetryTimerFires
  \/ RetrySourceSucceeds
  \/ RetryUnsubscribe

\* ========================================================= debugger model

Tracked == 1..NumTracked
DebugSubs == 1..NumDebugSubs
DebugIds == 1..NumTracked      \* n stands for the id `debug_${n}`
NoId == 0
Unset == -1                    \* an optional field that was never assigned

\* a source is cold: every subscription gets the values 1..SrcLen from the
\* start, followed by complete or error
SourceValues == [i \in 1..SrcLen |-> i]
SourceEnds == {"complete", "error"}

NoInfo ==
  [exists |-> FALSE, isActive |-> FALSE, emissionCount |-> 0, errorCount |-> 0,
   createdAt |-> 0, lastEmission |-> Unset, lastError |-> Unset, duration |-> Unset]

NoStream ==
  [made |-> FALSE, same |-> FALSE, id |-> NoId, ends |-> "complete",
   connected |-> FALSE, pos |-> 0, sourceSubscribes |-> 0, subscribers |-> 0]

NoDebugSub ==
  [stream |-> 0, status |-> "unused", received |-> <<>>, pos |-> 0]

InitDebug ==
  /\ dEnabled = FALSE
  /\ debugCounter = 0
  /\ dMap = {}
  /\ dInfo = [i \in DebugIds |-> NoInfo]
  /\ dTimers = [i \in DebugIds |-> 0]
  /\ dStreams = [k \in Tracked |-> NoStream]
  /\ dSubs = [s \in DebugSubs |-> NoDebugSub]
  /\ dNow = 0

\* the clock moves on
Tick ==
  /\ dNow < MaxClock
  /\ dNow' = dNow + 1
  /\ UNCHANGED <<dEnabled, debugCounter, dMap, dInfo, dTimers, dStreams, dSubs,
                 nonDebugVars>>

\* SubscriptionDebuggerService.enable()
DebugEnable ==
  /\ dEnabled' = TRUE
  /\ UNCHANGED <<debugCounter, dMap, dInfo, dTimers, dStreams, dSubs, dNow,
                 nonDebugVars>>

\* SubscriptionDebuggerService.disable()
DebugDisable ==
  /\ dEnabled' = FALSE
  /\ UNCHANGED <<debugCounter, dMap, dInfo, dTimers, dStreams, dSubs, dNow,
                 nonDebugVars>>

\* stream slots and subscriber slots are taken in order
FreshStream(k) ==
  /\ ~dStreams[k].made
  /\ \A j \in Tracked : j < k => dStreams[j].made

FreshDebugSub(s) ==
  /\ dSubs[s].status = "unused"
  /\ \A r \in DebugSubs : r < s => dSubs[r].status # "unused"

\* const info = { id, ..., createdAt: new Date(), isActive: true, emissionCount: 0,
\*                errorCount: 0 }
NewInfo ==
  [NoInfo EXCEPT !.exists = TRUE, !.isActive = TRUE, !.createdAt = dNow]

\* mutant: debugSubscription() without the isEnabled test
DebugSubscriptionAlways(k, ends) ==
  LET id == debugCounter + 1
  IN /\ FreshStream(k)
     /\ debugCounter' = id
     /\ dInfo' = [dInfo EXCEPT ![id] = NewInfo]
     /\ dMap' = dMap \cup {id}
     /\ dStreams' = [dStreams EXCEPT ![k] =
                       [NoStream EXCEPT !.made = TRUE, !.id = id, !.ends = ends]]
     /\ UNCHANGED <<dEnabled, dTimers, dSubs, dNow, nonDebugVars>>

\* SubscriptionDebuggerService.debugSubscription(source, options) on a source
\* that ends with `ends`; same says that the source itself was returned
DebugSubscription(k, ends) ==
  LET id == debugCounter + 1
  IN /\ FreshStream(k)
     /\ IF ~dEnabled
          THEN /\ dStreams' = [dStreams EXCEPT ![k] =
                                 [NoStream EXCEPT !.made = TRUE, !.same = TRUE,
                                                  !.ends = ends]]
               /\ UNCHANGED <<debugCounter, dInfo, dMap>>
          ELSE /\ debugCounter' = id
               /\ dInfo' = [dInfo EXCEPT ![id] = NewInfo]
               /\ dMap' = dMap \cup {id}
               /\ dStreams' = [dStreams EXCEPT ![k] =
                                 [NoStream EXCEPT !.made = TRUE, !.id = id,
                                                  !.ends = ends]]
     /\ UNCHANGED <<dEnabled, dTimers, dSubs, dNow, nonDebugVars>>

\* the subscribers of stream k that are subscribed now
LiveOn(k) == {s \in DebugSubs : dSubs[s].stream = k /\ dSubs[s].status = "live"}

\* finalize(() => { info.isActive = false; info.duration = Date.now() - createdAt;
\*                  setTimeout(() => this.subscriptions.delete(id), 60000) })
Finalized(info) ==
  [info EXCEPT !.isActive = FALSE, !.duration = dNow - info.createdAt]

\* returned$.subscribe(observer). The source itself starts a new execution for
\* every subscriber; behind share() the source is subscribed only when no
\* connection is open, and a subscriber that joins an open connection gets
\* what the source emits from then on.
DebugSubscribe(s, k) ==
  LET st == dStreams[k]
      connect == st.same \/ ~st.connected
  IN /\ FreshDebugSub(s)
     /\ st.made
     /\ dSubs' = [dSubs EXCEPT ![s] = [NoDebugSub EXCEPT !.stream = k, !.status = "live"]]
     /\ dStreams' = [dStreams EXCEPT ![k] =
                       [st EXCEPT !.subscribers = @ + 1,
                                  !.sourceSubscribes = IF connect THEN @ + 1 ELSE @,
                                  !.connected = ~st.same,
                                  !.pos = IF connect THEN 0 ELSE @]]
     /\ UNCHANGED <<dEnabled, debugCounter, dMap, dInfo, dTimers, dNow, nonDebugVars>>

\* the source execution behind share() emits its next value: tap counts it and
\* the Subject of share() hands it to every subscriber
TrackedNext(k) ==
  LET st == dStreams[k]
      v == SourceValues[st.pos + 1]
  IN /\ st.connected
     /\ st.pos < SrcLen
     /\ dStreams' = [dStreams EXCEPT ![k].pos = @ + 1]
     /\ dInfo' = [dInfo EXCEPT ![st.id] =
                    [@ EXCEPT !.emissionCount = @ + 1, !.lastEmission = dNow]]
     /\ dSubs' = [s \in DebugSubs |->
                   IF s \in LiveOn(k)
                     THEN [dSubs[s] EXCEPT !.received = Append(@, v)]
                     ELSE dSubs[s]]
     /\ UNCHANGED <<dEnabled, debugCounter, dMap, dTimers, dNow, nonDebugVars>>

\* the source execution behind share() completes or errors: tap counts an
\* error, every subscriber gets the notification, share() drops its connection
\* and finalize runs
TrackedEnd(k) ==
  LET st == dStreams[k]
      failed == st.ends = "error"
      counted == IF failed
                   THEN [dInfo[st.id] EXCEPT !.errorCount = @ + 1, !.lastError = dNow]
                   ELSE dInfo[st.id]
  IN /\ st.connected
     /\ st.pos = SrcLen
     /\ dStreams' = [dStreams EXCEPT ![k].connected = FALSE]
     /\ dInfo' = [dInfo EXCEPT ![st.id] = Finalized(counted)]
     /\ dTimers' = [dTimers EXCEPT ![st.id] = @ + 1]
     /\ dSubs' = [s \in DebugSubs |->
                   IF s \in LiveOn(k)
                     THEN [dSubs[s] EXCEPT !.status =
                             IF failed THEN "errored" ELSE "completed"]
                     ELSE dSubs[s]]
     /\ UNCHANGED <<dEnabled, debugCounter, dMap, dNow, nonDebugVars>>

\* subscription.unsubscribe(): when the last subscriber of share() leaves, the
\* connection to the source is closed and finalize runs
DebugUnsubscribe(s) ==
  LET k == dSubs[s].stream
      st == dStreams[k]
      last == st.connected /\ LiveOn(k) = {s}
  IN /\ dSubs[s].status = "live"
     /\ dSubs' = [dSubs EXCEPT ![s].status = "unsubscribed"]
     /\ IF last
          THEN /\ dStreams' = [dStreams EXCEPT ![k].connected = FALSE]
               /\ dInfo' = [dInfo EXCEPT ![st.id] = Finalized(@)]
               /\ dTimers' = [dTimers EXCEPT ![st.id] = @ + 1]
          ELSE UNCHANGED <<dStreams, dInfo, dTimers>>
     /\ UNCHANGED <<dEnabled, debugCounter, dMap, dNow, nonDebugVars>>

\* the execution of the source itself, for a subscriber of a stream that
\* debugSubscription returned unchanged, emits its next value
DirectNext(s) ==
  /\ dSubs[s].status = "live"
  /\ dStreams[dSubs[s].stream].same
  /\ dSubs[s].pos < SrcLen
  /\ dSubs' = [dSubs EXCEPT ![s] =
                 [@ EXCEPT !.pos = @ + 1,
                           !.received = Append(@, SourceValues[dSubs[s].pos + 1])]]
  /\ UNCHANGED <<dEnabled, debugCounter, dMap, dInfo, dTimers, dStreams, dNow,
                 nonDebugVars>>

\* ... and completes or errors
DirectEnd(s) ==
  /\ dSubs[s].status = "live"
  /\ dStreams[dSubs[s].stream].same
  /\ dSubs[s].pos = SrcLen
  /\ dSubs' = [dSubs EXCEPT ![s].status =
                 IF dStreams[dSubs[s].stream].ends = "error" THEN "errored"
                                                             ELSE "completed"]
  /\ UNCHANGED <<dEnabled, debugCounter, dMap, dInfo, dTimers, dStreams, dNow,
                 nonDebugVars>>

\* a timer set by finalize fires: this.subscriptions.delete(id)
GraceTimerFires(id) ==
  /\ dTimers[id] > 0
  /\ dTimers' = [dTimers EXCEPT ![id] = @ - 1]
  /\ dMap' = dMap \ {id}
  /\ UNCHANGED <<dEnabled, debugCounter, dInfo, dStreams, dSubs, dNow, nonDebugVars>>

\* SubscriptionDebuggerService.clear()
DebugClear ==
  /\ dMap' = {}
  /\ UNCHANGED <<dEnabled, debugCounter, dInfo, dTimers, dStreams, dSubs, dNow,
                 nonDebugVars>>

\* SubscriptionDebuggerService and the streams it returns
NextDebug ==
  \/ Tick
  \/ DebugEnable
  \/ DebugDisable
  \/ \E k \in Tracked, ends \in SourceEnds : DebugSubscription(k, ends)
  \/ \E s \in DebugSubs, k \in Tracked : DebugSubscribe(s, k)
  \/ \E k \in Tracked : TrackedNext(k)
  \/ \E k \in Tracked : TrackedEnd(k)
  \/ \E s \in DebugSubs : DebugUnsubscribe(s)
  \/ \E s \in DebugSubs : DirectNext(s)
  \/ \E s \in DebugSubs : DirectEnd(s)
  \/ \E id \in DebugIds : GraceTimerFires(id)
  \/ DebugClear

\* ------------------------------------------- the getters of the debugger

LeakAge == 300000              \* age > 300000
QuietTime == 60000             \* (now - info.lastEmission.getTime()) > 60000

\* getSubscriptionInfo(id): this.subscriptions.get(id)
GetSubscriptionInfo(id) == IF id \in dMap THEN dInfo[id] ELSE NoInfo

\* getAllSubscriptions(): Array.from(this.subscriptions.values()), one entry
\* per key
GetAllSubscriptions == dMap

\* getActiveSubscriptions(): ... .filter(info => info.isActive)
GetActiveSubscriptions == {id \in GetAllSubscriptions : dInfo[id].isActive}

\* array.reduce((sum, info) => sum + field(info), 0)
RECURSIVE SumOver(_, _)
SumOver(field, ids) ==
  IF ids = {} THEN 0
  ELSE LET id == CHOOSE i \in ids : TRUE
       IN field[id] + SumOver(field, ids \ {id})

\* the records that detectPotentialLeaks() counts
IsPotentialLeak(info, now) ==
  LET age == now - info.createdAt
  IN age > LeakAge
     /\ (info.lastEmission = Unset \/ now - info.lastEmission > QuietTime)

\* mutant: the inactive records are examined too
PotentialLeaksOfAll == {id \in GetAllSubscriptions : IsPotentialLeak(dInfo[id], dNow)}

PotentialLeaks == {id \in GetActiveSubscriptions : IsPotentialLeak(dInfo[id], dNow)}

\* calculateAverageLifetime(subscriptions): the quotient total / completed.length
\* is kept as the pair <<total, completed.length>>, and 0 as <<0, 1>>;
\* `info.duration` is falsy when it is undefined and when it is 0
CalculateAverageLifetime(ids) ==
  LET completed == {id \in ids : ~dInfo[id].isActive /\ dInfo[id].duration # Unset
                                 /\ dInfo[id].duration # 0}
      total == SumOver([id \in DebugIds |-> dInfo[id].duration], completed)
  IN IF completed = {} THEN <<0, 1>> ELSE <<total, Cardinality(completed)>>

InitGetters ==
  /\ mCall = "none"
  /\ mReturned = 0

\* SubscriptionDebuggerService.detectPotentialLeaks()
DetectPotentialLeaks ==
  /\ mCall' = "detectPotentialLeaks"
  /\ mReturned' = Cardinality(PotentialLeaks)
  /\ UNCHANGED nonMetricsVars

\* SubscriptionDebuggerService.getPerformanceMetrics(); memoryUsage is read
\* from performance.memory and left out
GetPerformanceMetrics ==
  LET all == GetAllSubscriptions
      active == GetActiveSubscriptions
  IN /\ mCall' = "getPerformanceMetrics"
     /\ mReturned' =
          [totalSubscriptions |-> Cardinality(all),
           activeSubscriptions |-> Cardinality(active),
           totalEmissions |-> SumOver([id \in DebugIds |-> dInfo[id].emissionCount], all),
           totalErrors |-> SumOver([id \in DebugIds |-> dInfo[id].errorCount], all),
           averageLifetime |-> CalculateAverageLifetime(all),
           leaksDetected |-> Cardinality(PotentialLeaks)]
     /\ UNCHANGED nonMetricsVars

\* The getters are functions of the record set and the clock. The records a
\* service can hold after debugSubscription calls, emissions, errors and
\* teardowns: every id has been handed out; a record is active until its first
\* teardown, which sets duration; an error is followed by the teardown in the
\* same turn; lastEmission and lastError are set with the first emission and
\* error; a deleted record is no longer a value of the map.
CreationInstants == {0, 1}
EmissionInstants == {240001, 300001}
Durations == {0, 100}
Instants == {300001, 300002, 360002}

RecordShapes ==
  {r \in [exists : {TRUE}, isActive : BOOLEAN, emissionCount : {0, 1},
          errorCount : {0, 1}, createdAt : CreationInstants,
          lastEmission : {Unset} \cup EmissionInstants,
          lastError : {Unset} \cup {c + d : c \in CreationInstants, d \in Durations},
          duration : {Unset} \cup Durations] :
     /\ (r.emissionCount = 0) = (r.lastEmission = Unset)
     /\ r.isActive = (r.duration = Unset)
     /\ (r.errorCount = 0) = (r.lastError = Unset)
     /\ r.errorCount = 1 => ~r.isActive /\ r.lastError = r.createdAt + r.duration}

InitRecords ==
  /\ dEnabled = TRUE
  /\ debugCounter = NumTracked
  /\ dInfo \in [DebugIds -> RecordShapes]
  /\ dMap \in SUBSET DebugIds
  /\ dTimers = [id \in DebugIds |-> IF id \in dMap /\ ~dInfo[id].isActive THEN 1 ELSE 0]
  /\ dStreams = [k \in Tracked |-> [NoStream EXCEPT !.made = TRUE, !.id = k]]
  /\ dSubs = [s \in DebugSubs |-> NoDebugSub]
  /\ dNow \in Instants

NextGetters ==
  \/ DetectPotentialLeaks
  \/ GetPerformanceMetrics

\* ============================================================ route model

\* Strings are sequences of characters. The characters of urls and patterns:
\* the separator, a letter, and the wildcard character of patterns.
UrlChars == {"/", "d"}
PatternChars == {"/", "d", "*"}

StringsOver(chars, maxLen) == UNION {[1..n -> chars] : n \in 0..maxLen}

\* router urls start with the separator
Urls == {u \in StringsOver(UrlChars, MaxUrlLen) : u # <<>> /\ u[1] = "/"}
Patterns == StringsOver(PatternChars, MaxPatternLen) \ {<<>>}

\* pattern.replace(/\*\*/g, '.*'): every pair of stars, left to right, becomes
\* the two characters . and *
RECURSIVE ReplaceStarStar(_)
ReplaceStarStar(p) ==
  IF p = <<>> THEN <<>>
  ELSE IF Len(p) >= 2 /\ p[1] = "*" /\ p[2] = "*"
         THEN <<".", "*">> \o ReplaceStarStar(SubSeq(p, 3, Len(p)))
         ELSE <<p[1]>> \o ReplaceStarStar(Tail(p))

\* .replace(/\*/g, '[^/]*'): every star, those written by the first replace
\* included, becomes the five characters [^/]*, kept as one element
ReplaceStar(p) == [i \in 1..Len(p) |-> IF p[i] = "*" THEN "[^/]*" ELSE p[i]]

\* .replace(/\//g, '\\/'): every slash gets a backslash, the one inside [^/]* too
EscapeSlashes(p) ==
  [i \in 1..Len(p) |-> IF p[i] = "/" THEN "\\/"
                       ELSE IF p[i] = "[^/]*" THEN "[^\\/]*" ELSE p[i]]

RegexPattern(pattern) == EscapeSlashes(ReplaceStar(ReplaceStarStar(pattern)))

\* new RegExp(`^${regexPattern}$`).test(url): \/ is the slash, . any character,
\* [^\/]* any run of characters other than the slash, a letter is itself
RECURSIVE RegexTest(_, _)
RegexTest(regex, url) ==
  IF regex = <<>> THEN url = <<>>
  ELSE LET head == regex[1]
           rest == Tail(regex)
       IN IF head = "[^\\/]*"
            THEN \/ RegexTest(rest, url)
                 \/ url # <<>> /\ url[1] # "/" /\ RegexTest(regex, Tail(url))
          ELSE IF head = "."
            THEN url # <<>> /\ RegexTest(rest, Tail(url))
          ELSE IF head = "\\/"
            THEN url # <<>> /\ url[1] = "/" /\ RegexTest(rest, Tail(url))
          ELSE url # <<>> /\ url[1] = head /\ RegexTest(rest, Tail(url))

\* matchesRoutePattern(url, pattern)
MatchesRoutePattern(url, pattern) == RegexTest(RegexPattern(pattern), url)

InitMatch ==
  /\ patUrl = <<>>
  /\ patPattern = <<>>
  /\ patReturned = <<>>

\* every url and pattern of the bounded lengths
InitMatchInputs ==
  /\ patUrl \in Urls
  /\ patPattern \in Patterns
  /\ patReturned = <<>>

\* the call matchesRoutePattern(patUrl, patPattern)
CallMatchesRoutePattern ==
  /\ patReturned = <<>>
  /\ patReturned' = <<MatchesRoutePattern(patUrl, patPattern)>>
  /\ UNCHANGED <<patUrl, patPattern, nonMatchVars>>

NextMatch ==
  \/ CallMatchesRoutePattern

\* ------------------------------------- takeUntilRoute and takeWhileOnRoute

\* the urls the router navigates to: /d, /d/s, /d- and /h
RouteUrls == {<<"/", "d">>, <<"/", "d", "/", "s">>, <<"/", "d", "-">>, <<"/", "h">>}

\* targetRoute arguments; <<>> stands for an absent targetRoute
NoTarget == <<>>
RouteTargets == {NoTarget, <<"/", "d">>}

\* routePattern arguments: /d, /d/* and /d/**
RoutePatterns == {<<"/", "d">>, <<"/", "d", "/", "*">>, <<"/", "d", "/", "*", "*">>}

\* url.startsWith(prefix)
StartsWith(url, prefix) ==
  Len(prefix) <= Len(url) /\ SubSeq(url, 1, Len(prefix)) = prefix

NoRouteStream ==
  [status |-> "unused", arg |-> <<>>, srcActive |-> FALSE, srcDone |-> FALSE,
   since |-> 0, endedBy |-> "none", srcSubscribes |-> 0, srcUnsubscribes |-> 0]

\* Router.url is "/" before the first navigation has ended
InitRoute ==
  /\ navUrl = <<"/">>
  /\ navEnds = <<>>
  /\ untilRoute = NoRouteStream
  /\ whileOnRoute = NoRouteStream

\* source.pipe(takeUntilRoute(targetRoute)).subscribe(): takeUntil subscribes
\* routeChange$ and then the source
SubscribeUntilRoute(targetRoute) ==
  /\ untilRoute.status = "unused"
  /\ untilRoute' = [NoRouteStream EXCEPT !.status = "live", !.arg = targetRoute,
                                        !.srcActive = TRUE, !.srcSubscribes = 1,
                                        !.since = Len(navEnds)]
  /\ UNCHANGED <<navUrl, navEnds, whileOnRoute, nonRouteVars>>

\* source.pipe(takeWhileOnRoute(routePattern)).subscribe(): router.events is
\* subscribed; the source is subscribed by switchMap, for a NavigationEnd
SubscribeWhileOnRoute(routePattern) ==
  /\ whileOnRoute.status = "unused"
  /\ whileOnRoute' = [NoRouteStream EXCEPT !.status = "live", !.arg = routePattern,
                                          !.since = Len(navEnds)]
  /\ UNCHANGED <<navUrl, navEnds, untilRoute, nonRouteVars>>

\* filter(event => !targetRoute || !event.urlAfterRedirects.startsWith(targetRoute))
RouteChanges(targetRoute, url) ==
  targetRoute = NoTarget \/ ~StartsWith(url, targetRoute)

\* takeUntil(routeChange$) for a NavigationEnd
UntilRouteAfter(st, url) ==
  IF st.status = "live" /\ RouteChanges(st.arg, url)
    THEN [st EXCEPT !.status = "completed", !.endedBy = "route", !.srcActive = FALSE,
                    !.srcUnsubscribes = IF st.srcActive THEN @ + 1 ELSE @]
    ELSE st

\* switchMap(event => matchesRoutePattern(url, routePattern) ? source : EMPTY):
\* the inner subscription of the NavigationEnd before is closed, then the
\* source is subscribed if the url matches
WhileOnRouteAfter(st, url) ==
  LET matches == MatchesRoutePattern(url, st.arg)
  IN IF st.status = "live"
       THEN [st EXCEPT !.srcActive = matches, !.srcDone = FALSE,
                       !.srcUnsubscribes = IF st.srcActive THEN @ + 1 ELSE @,
                       !.srcSubscribes = IF matches THEN @ + 1 ELSE @]
       ELSE st

\* the router ends a navigation: router.events emits NavigationEnd with
\* urlAfterRedirects = url
NavigationEnd(url) ==
  /\ Len(navEnds) < MaxNavs
  /\ navUrl' = url
  /\ navEnds' = Append(navEnds, url)
  /\ untilRoute' = UntilRouteAfter(untilRoute, url)
  /\ whileOnRoute' = WhileOnRouteAfter(whileOnRoute, url)
  /\ UNCHANGED nonRouteVars

\* the source of the takeUntilRoute stream completes
UntilRouteSourceCompletes ==
  /\ untilRoute.status = "live"
  /\ untilRoute' = [untilRoute EXCEPT !.status = "completed", !.endedBy = "source",
                                      !.srcActive = FALSE, !.srcDone = TRUE]
  /\ UNCHANGED <<navUrl, navEnds, whileOnRoute, nonRouteVars>>

\* the source of the takeWhileOnRoute stream completes: the inner subscription
\* of switchMap is over, router.events stays subscribed
WhileOnRouteSourceCompletes ==
  /\ whileOnRoute.status = "live"
  /\ whileOnRoute.srcActive
  /\ whileOnRoute' = [whileOnRoute EXCEPT !.srcActive = FALSE, !.srcDone = TRUE]
  /\ UNCHANGED <<navUrl, navEnds, untilRoute, nonRouteVars>>

\* subscription.unsubscribe() on the takeUntilRoute stream
UntilRouteUnsubscribe ==
  /\ untilRoute.status = "live"
  /\ untilRoute' = [untilRoute EXCEPT !.status = "unsubscribed",
                                      !.endedBy = "unsubscribe", !.srcActive = FALSE,
                                      !.srcUnsubscribes = @ + 1]
  /\ UNCHANGED <<navUrl, navEnds, whileOnRoute, nonRouteVars>>

\* subscription.unsubscribe() on the takeWhileOnRoute stream
WhileOnRouteUnsubscribe ==
  /\ whileOnRoute.status = "live"
  /\ whileOnRoute' = [whileOnRoute EXCEPT
                        !.status = "unsubscribed", !.endedBy = "unsubscribe",
                        !.srcActive = FALSE,
                        !.srcUnsubscribes = IF whileOnRoute.srcActive THEN @ + 1 ELSE @]
  /\ UNCHANGED <<navUrl, navEnds, untilRoute, nonRouteVars>>

NextRoute ==
  \/ \E targetRoute \in RouteTargets : SubscribeUntilRoute(targetRoute)
  \/ \E routePattern \in RoutePatterns : SubscribeWhileOnRoute(routePattern)
  \/ \E url \in RouteUrls : NavigationEnd(url)
  \/ UntilRouteSourceCompletes
  \/ WhileOnRouteSourceCompletes
  \/ UntilRouteUnsubscribe
  \/ WhileOnRouteUnsubscribe

\* ===================================================== visibility model

\* The browser sets document.hidden and dispatches visibilitychange in one
\* step; blur and focus are dispatched without a change of document.hidden.
DocEventTypes == {"visibilitychange", "blur", "focus"}

\* distinctUntilChanged() before its first value
NoneYet == "none"

\* map(() => !document.hidden) / map(() => document.hidden), as a string so
\* that it can be compared with NoneYet
Reading(b) == IF b THEN "true" ELSE "false"

NoVisibleStream ==
  [status |-> "unused", last |-> NoneYet, srcActive |-> FALSE, srcDone |-> FALSE,
   srcSubscribes |-> 0, srcUnsubscribes |-> 0, srcCompletes |-> 0,
   startVisible |-> FALSE, shows |-> 0, hides |-> 0]

NoUntilHiddenStream ==
  [status |-> "unused", last |-> NoneYet, srcActive |-> FALSE, endedBy |-> "none",
   emitted |-> 0, forwarded |-> 0, startHidden |-> FALSE, wasHidden |-> FALSE]

NoBufferStream ==
  [status |-> "unused", bufferSize |-> 0, last |-> NoneYet, inner |-> 0,
   buffer |-> <<>>, out |-> <<>>, emitted |-> 0, srcDone |-> FALSE]

InitVisibility ==
  /\ docHidden = FALSE
  /\ docEvents = 0
  /\ whileVisible = NoVisibleStream
  /\ untilHidden = NoUntilHiddenStream
  /\ whileHidden = NoBufferStream

\* ------------------------------------------------------- takeWhileVisible

\* switchMap(isVisible => isVisible ? source : EMPTY) for a value that passed
\* distinctUntilChanged: the inner subscription before is closed, then the
\* source is subscribed if the page is visible
SwitchOnVisibility(st, isVisible) ==
  [st EXCEPT !.last = Reading(isVisible),
             !.srcActive = isVisible,
             !.srcDone = FALSE,
             !.srcUnsubscribes = IF st.srcActive THEN @ + 1 ELSE @,
             !.srcSubscribes = IF isVisible THEN @ + 1 ELSE @]

\* mutant: the pipeline without distinctUntilChanged()
WhileVisibleEveryEvent(st, hidden) ==
  IF st.status = "live" THEN SwitchOnVisibility(st, ~hidden) ELSE st

\* the pipeline of takeWhileVisible for one event: map(() => !document.hidden),
\* distinctUntilChanged(), switchMap
WhileVisibleAfter(st, hidden) ==
  IF st.status = "live" /\ st.last # Reading(~hidden)
    THEN SwitchOnVisibility(st, ~hidden)
    ELSE st

\* source.pipe(takeWhileVisible()).subscribe(): startWith(null) sends the
\* reading of document.hidden at subscription through the pipeline
SubscribeWhileVisible ==
  /\ whileVisible.status = "unused"
  /\ whileVisible' =
       SwitchOnVisibility([NoVisibleStream EXCEPT !.status = "live",
                                                  !.startVisible = ~docHidden],
                          ~docHidden)
  /\ UNCHANGED <<docHidden, docEvents, untilHidden, whileHidden, nonVisibilityVars>>

\* the source of the takeWhileVisible stream completes: the inner subscription
\* of switchMap is over, the events stay subscribed
WhileVisibleSourceCompletes ==
  /\ whileVisible.status = "live"
  /\ whileVisible.srcActive
  /\ whileVisible' = [whileVisible EXCEPT !.srcActive = FALSE, !.srcDone = TRUE,
                                          !.srcCompletes = @ + 1]
  /\ UNCHANGED <<docHidden, docEvents, untilHidden, whileHidden, nonVisibilityVars>>

\* subscription.unsubscribe() on the takeWhileVisible stream
WhileVisibleUnsubscribe ==
  /\ whileVisible.status = "live"
  /\ whileVisible' = [whileVisible EXCEPT
                        !.status = "unsubscribed", !.srcActive = FALSE,
                        !.srcUnsubscribes = IF whileVisible.srcActive THEN @ + 1 ELSE @]
  /\ UNCHANGED <<docHidden, docEvents, untilHidden, whileHidden, nonVisibilityVars>>

\* -------------------------------------------------------- takeUntilHidden

\* the pipeline of hidden$ for a visibilitychange or blur event:
\* map(() => document.hidden), distinctUntilChanged(),
\* switchMap(isHidden => isHidden ? [true] : EMPTY), and takeUntil(hidden$)
UntilHiddenAfter(st, type, hidden) ==
  IF st.status = "live" /\ type # "focus" /\ st.last # Reading(hidden)
    THEN IF hidden
           THEN [st EXCEPT !.last = Reading(hidden), !.status = "completed",
                           !.endedBy = "hidden", !.srcActive = FALSE]
           ELSE [st EXCEPT !.last = Reading(hidden)]
    ELSE st

\* source.pipe(takeUntilHidden()).subscribe(): takeUntil subscribes hidden$,
\* which has no value before the first event, and then the source
SubscribeUntilHidden ==
  /\ untilHidden.status = "unused"
  /\ untilHidden' = [NoUntilHiddenStream EXCEPT !.status = "live", !.srcActive = TRUE,
                                               !.startHidden = docHidden,
                                               !.wasHidden = docHidden]
  /\ UNCHANGED <<docHidden, docEvents, whileVisible, whileHidden, nonVisibilityVars>>

\* the source of the takeUntilHidden stream emits a value and takeUntil
\* forwards it
UntilHiddenSourceEmits ==
  /\ untilHidden.status = "live"
  /\ untilHidden.srcActive
  /\ untilHidden.emitted < MaxSourceValues
  /\ untilHidden' = [untilHidden EXCEPT !.emitted = @ + 1, !.forwarded = @ + 1]
  /\ UNCHANGED <<docHidden, docEvents, whileVisible, whileHidden, nonVisibilityVars>>

\* the source of the takeUntilHidden stream completes
UntilHiddenSourceCompletes ==
  /\ untilHidden.status = "live"
  /\ untilHidden' = [untilHidden EXCEPT !.status = "completed", !.endedBy = "source",
                                        !.srcActive = FALSE]
  /\ UNCHANGED <<docHidden, docEvents, whileVisible, whileHidden, nonVisibilityVars>>

\* subscription.unsubscribe() on the takeUntilHidden stream
UntilHiddenUnsubscribe ==
  /\ untilHidden.status = "live"
  /\ untilHidden' = [untilHidden EXCEPT !.status = "unsubscribed",
                                        !.endedBy = "unsubscribe", !.srcActive = FALSE]
  /\ UNCHANGED <<docHidden, docEvents, whileVisible, whileHidden, nonVisibilityVars>>

\* ------------------------------------------------------ bufferWhileHidden

BufferSizes == 1..MaxBufferSize

\* array.slice(-n) for n >= 1
SliceLast(array, n) ==
  IF Len(array) <= n THEN array ELSE SubSeq(array, Len(array) - n + 1, Len(array))

\* the function given to map in the inner stream of value, for one reading of
\* the visibility, followed by switchMap(values => values.length > 0 ? [values]
\* : EMPTY): when visible, buffer plus value is emitted and the buffer emptied;
\* when hidden, value is pushed and the buffer cut to bufferSize
BufferMap(st, value, isVisible) ==
  LET pushed == Append(st.buffer, value)
      result == SliceLast(pushed, st.bufferSize)
  IN IF isVisible
       THEN [st EXCEPT !.last = Reading(isVisible), !.buffer = <<>>,
                       !.out = IF Len(result) > 0 THEN Append(@, result) ELSE @]
       ELSE [st EXCEPT !.last = Reading(isVisible),
                       !.buffer = IF Len(pushed) > st.bufferSize
                                    THEN SliceLast(pushed, st.bufferSize)
                                    ELSE pushed]

\* the inner stream visibility$.pipe(map(...)) of the latest source value for
\* one event: map(() => !document.hidden), distinctUntilChanged(), then the map
\* function with the same value again
BufferAfter(st, hidden) ==
  IF st.status = "live" /\ st.inner # 0 /\ st.last # Reading(~hidden)
    THEN BufferMap(st, st.inner, ~hidden)
    ELSE st

\* source.pipe(bufferWhileHidden(bufferSize)).subscribe(): the source is
\* subscribed; visibility$ is subscribed by switchMap, for a source value
SubscribeWhileHidden(bufferSize) ==
  /\ whileHidden.status = "unused"
  /\ whileHidden' = [NoBufferStream EXCEPT !.status = "live", !.bufferSize = bufferSize]
  /\ UNCHANGED <<docHidden, docEvents, whileVisible, untilHidden, nonVisibilityVars>>

\* the source emits its next value: switchMap closes the inner stream of the
\* value before, the last subscriber of share() is gone and visibility$ is
\* reset; the new inner stream connects it again and startWith(null) sends the
\* present reading of document.hidden to the map function
BufferSourceEmits ==
  LET value == whileHidden.emitted + 1
  IN /\ whileHidden.status = "live"
     /\ ~whileHidden.srcDone
     /\ whileHidden.emitted < MaxSourceValues
     /\ whileHidden' = BufferMap([whileHidden EXCEPT !.emitted = value, !.inner = value],
                                 value, ~docHidden)
     /\ UNCHANGED <<docHidden, docEvents, whileVisible, untilHidden, nonVisibilityVars>>

\* the source completes: the outer switchMap waits for its inner stream, which
\* does not end
BufferSourceCompletes ==
  /\ whileHidden.status = "live"
  /\ ~whileHidden.srcDone
  /\ whileHidden' = [whileHidden EXCEPT !.srcDone = TRUE]
  /\ UNCHANGED <<docHidden, docEvents, whileVisible, untilHidden, nonVisibilityVars>>

\* subscription.unsubscribe() on the bufferWhileHidden stream
BufferUnsubscribe ==
  /\ whileHidden.status = "live"
  /\ whileHidden' = [whileHidden EXCEPT !.status = "unsubscribed", !.inner = 0]
  /\ UNCHANGED <<docHidden, docEvents, whileVisible, untilHidden, nonVisibilityVars>>

\* ------------------------------------------------------------- the events

\* the changes of visibility that a subscribed takeWhileVisible stream has
\* lived through
WithEdges(before, after, hiddenBefore, hiddenAfter) ==
  IF before.status = "live"
    THEN [after EXCEPT !.shows = IF hiddenBefore /\ ~hiddenAfter THEN @ + 1 ELSE @,
                       !.hides = IF ~hiddenBefore /\ hiddenAfter THEN @ + 1 ELSE @]
    ELSE after

\* the document dispatches an event: every fromEvent of that type calls its
\* pipeline
DocEvent(type) ==
  LET hidden == IF type = "visibilitychange" THEN ~docHidden ELSE docHidden
  IN /\ docEvents < MaxDocEvents
     /\ docEvents' = docEvents + 1
     /\ docHidden' = hidden
     /\ whileVisible' = WithEdges(whileVisible, WhileVisibleAfter(whileVisible, hidden),
                                  docHidden, hidden)
     /\ untilHidden' = [UntilHiddenAfter(untilHidden, type, hidden) EXCEPT
                          !.wasHidden = @ \/ (untilHidden.status = "live" /\ hidden)]
     /\ whileHidden' = BufferAfter(whileHidden, hidden)
     /\ UNCHANGED nonVisibilityVars

\* takeWhileVisible and takeUntilHidden
NextVisible ==
  \/ \E type \in DocEventTypes : DocEvent(type)
  \/ SubscribeWhileVisible
  \/ WhileVisibleSourceCompletes
  \/ WhileVisibleUnsubscribe
  \/ SubscribeUntilHidden
  \/ UntilHiddenSourceEmits
  \/ UntilHiddenSourceCompletes
  \/ UntilHiddenUnsubscribe

\* bufferWhileHidden
NextBuffer ==
  \/ \E type \in DocEventTypes : DocEvent(type)
  \/ \E bufferSize \in BufferSizes : SubscribeWhileHidden(bufferSize)
  \/ BufferSourceEmits
  \/ BufferSourceCompletes
  \/ BufferUnsubscribe

\* ======================================================== optimizer model

ShareOptions == {"none", "share", "shareReplay"}

InitOptimizer ==
  /\ oEnabled = FALSE
  /\ idCounter = 0
  /\ observables = {}
  /\ sharedObservables = {}
  /\ oReturned = <<>>

\* MemoryOptimizer.enable()
OptimizerEnable ==
  /\ oEnabled' = TRUE
  /\ UNCHANGED <<idCounter, observables, sharedObservables, oReturned, nonOptimizerVars>>

\* MemoryOptimizer.disable()
OptimizerDisable ==
  /\ oEnabled' = FALSE
  /\ UNCHANGED <<idCounter, observables, sharedObservables, oReturned, nonOptimizerVars>>

\* MemoryOptimizer.optimize(source, options); option says which of
\* options.share / options.shareReplay is given
Optimize(option) ==
  LET id == idCounter + 1
  IN /\ Len(oReturned) < NumOptimized
     /\ IF ~oEnabled
          THEN /\ oReturned' = Append(oReturned,
                                      [same |-> TRUE, id |-> NoId, option |-> option,
                                       connected |-> FALSE])
               /\ UNCHANGED <<idCounter, observables, sharedObservables>>
          ELSE /\ idCounter' = id
               /\ observables' = observables \cup {id}
               /\ sharedObservables' = IF option = "none"
                                         THEN sharedObservables
                                         ELSE sharedObservables \cup {id}
               /\ oReturned' = Append(oReturned,
                                      [same |-> FALSE, id |-> id, option |-> option,
                                       connected |-> FALSE])
     /\ UNCHANGED <<oEnabled, nonOptimizerVars>>

\* a subscriber of the i-th stream optimize() returned makes it subscribe to
\* source.pipe(tap(...), finalize(...))
OptimizedConnects(i) ==
  /\ i \in 1..Len(oReturned)
  /\ ~oReturned[i].same
  /\ ~oReturned[i].connected
  /\ oReturned' = [oReturned EXCEPT ![i].connected = TRUE]
  /\ UNCHANGED <<oEnabled, idCounter, observables, sharedObservables, nonOptimizerVars>>

\* that subscription ends (the source completes or fails, or the subscribers
\* have left): finalize(() => { this.observables.delete(id) })
OptimizedFinalizes(i) ==
  /\ i \in 1..Len(oReturned)
  /\ oReturned[i].connected
  /\ oReturned' = [oReturned EXCEPT ![i].connected = FALSE]
  /\ observables' = observables \ {oReturned[i].id}
  /\ UNCHANGED <<oEnabled, idCounter, sharedObservables, nonOptimizerVars>>

\* MemoryOptimizer.getMemoryStats(): the two sizes
GetMemoryStats ==
  [totalObservables |-> Cardinality(observables),
   sharedObservables |-> Cardinality(sharedObservables)]

\* MemoryOptimizer.optimize and the streams it returned being used
NextOptimizer ==
  \/ OptimizerEnable
  \/ OptimizerDisable
  \/ \E option \in ShareOptions : Optimize(option)
  \/ \E i \in 1..NumOptimized : OptimizedConnects(i)
  \/ \E i \in 1..NumOptimized : OptimizedFinalizes(i)

\* the calls that put a stream under tracking, with tracking switched on and off
NextTracking ==
  \/ DebugEnable
  \/ DebugDisable
  \/ \E k \in Tracked, ends \in SourceEnds : DebugSubscription(k, ends)
  \/ OptimizerEnable
  \/ OptimizerDisable
  \/ \E option \in ShareOptions : Optimize(option)

\* ============================================== takeWhileFormValid(isValid)

NoValidStream ==
  [status |-> "idle", srcActive |-> FALSE, emitted |-> 0, readings |-> <<>>,
   forwarded |-> <<>>]

InitForm ==
  /\ formValid = TRUE
  /\ whileValid = NoValidStream

\* mutant: takeWhile(() => isValid()) in place of filter: the first false
\* result completes the stream and unsubscribes the source
TakeWhileValid(st, value, valid) ==
  IF valid
    THEN [st EXCEPT !.emitted = value, !.readings = Append(@, valid),
                    !.forwarded = Append(@, value)]
    ELSE [st EXCEPT !.emitted = value, !.readings = Append(@, valid),
                    !.status = "completed", !.srcActive = FALSE]

\* filter(() => isValid()) receiving a value of the source: valid is what
\* isValid() returns for it
FilterValid(st, value, valid) ==
  [st EXCEPT !.emitted = value, !.readings = Append(@, valid),
             !.forwarded = IF valid THEN Append(@, value) ELSE @]

\* source.pipe(takeWhileFormValid(isValid)).subscribe(observer)
SubscribeWhileFormValid ==
  /\ whileValid.status = "idle"
  /\ whileValid' = [whileValid EXCEPT !.status = "live", !.srcActive = TRUE]
  /\ UNCHANGED <<formValid, nonFormVars>>

\* the form becomes valid or invalid: isValid() returns the other value from now on
ValidityChanges ==
  /\ formValid' = ~formValid
  /\ UNCHANGED <<whileValid, nonFormVars>>

\* the source pushes its next value; the values are numbered in order
WhileValidSourceEmits ==
  /\ whileValid.srcActive
  /\ whileValid.emitted < MaxSourceValues
  /\ whileValid' = FilterValid(whileValid, whileValid.emitted + 1, formValid)
  /\ UNCHANGED <<formValid, nonFormVars>>

\* the source completes or fails: filter passes the notification on
WhileValidSourceEnds(status) ==
  /\ whileValid.srcActive
  /\ whileValid' = [whileValid EXCEPT !.status = status, !.srcActive = FALSE]
  /\ UNCHANGED <<formValid, nonFormVars>>

\* the subscriber unsubscribes
WhileValidUnsubscribe ==
  /\ whileValid.status = "live"
  /\ whileValid' = [whileValid EXCEPT !.status = "unsubscribed", !.srcActive = FALSE]
  /\ UNCHANGED <<formValid, nonFormVars>>

NextForm ==
  \/ SubscribeWhileFormValid
  \/ ValidityChanges
  \/ WhileValidSourceEmits
  \/ \E status \in {"completed", "errored"} : WhileValidSourceEnds(status)
  \/ WhileValidUnsubscribe

\* ============================== TestObservable and SubscriptionTester model

TestObs == 1..NumTestObs
TesterSubs == 1..NumTesterSubs
TesterNames == 1..NumTesterNames
NoTestObs == 0

NewTestObservable == [isCompleted |-> FALSE, hasErrored |-> FALSE, observers |-> {}]

UnusedTesterSub ==
  [obs |-> NoTestObs, name |-> 0, status |-> "unused", received |-> 0,
   terminals |-> 0, dropped |-> FALSE, counted |-> FALSE]

InitTest ==
  /\ tObs = [o \in TestObs |-> NewTestObservable]
  /\ tSubs = [t \in TesterSubs |-> UnusedTesterSub]
  /\ tList = {}
  /\ emissionCounts = [n \in TesterNames |-> 0]
  /\ errorCounts = [n \in TesterNames |-> 0]
  /\ completionCounts = [n \in TesterNames |-> 0]
  /\ tEmitting = {}
  /\ tEmits = 0

\* Subscription.closed of a subscription the tester returned
TesterClosed(t) == tSubs[t].status # "live"

\* incrementCount(map, key), once for every subscription of T
IncrementCount(map, T) ==
  [n \in TesterNames |-> map[n] + Cardinality({t \in T : tSubs[t].name = n})]

\* the observers of a Subject that are not stopped: a stopped Subscriber
\* drops what it is sent
Receiving(T) == {t \in T : tSubs[t].status = "live"}

\* Subscriber.next of the subscriptions of T: tap counts the value and passes
\* it on; a stopped Subscriber drops it
TesterSubsAfterNext(T) ==
  [t \in TesterSubs |->
     IF t \in Receiving(T) THEN [tSubs[t] EXCEPT !.received = @ + 1]
     ELSE IF t \in T THEN [tSubs[t] EXCEPT !.dropped = TRUE]
     ELSE tSubs[t]]

\* Subscriber.complete / Subscriber.error of every subscription of T
TesterSubsAfterEnd(T, status) ==
  [t \in TesterSubs |->
     IF t \in Receiving(T)
       THEN [tSubs[t] EXCEPT !.status = status, !.terminals = @ + 1]
       ELSE tSubs[t]]

\* observables and names are interchangeable: a call is given one that an
\* earlier call was given, or the first that none was given
FirstUnusedOrUsed(k, used) == \A j \in 1..(k - 1) : j \in used

\* SubscriptionTester.subscribe(observable, name): subject.subscribe(subscriber)
\* of a stopped Subject sends its error or its completion at once
TesterSubscribe(t, o, name) ==
  LET fresh == [UnusedTesterSub EXCEPT !.obs = o, !.name = name, !.counted = TRUE]
      status == IF tObs[o].hasErrored THEN "errored"
                ELSE IF tObs[o].isCompleted THEN "completed" ELSE "live"
  IN /\ tSubs[t].status = "unused"
     /\ \A u \in TesterSubs : u < t => tSubs[u].status # "unused"
     /\ FirstUnusedOrUsed(o, {tSubs[u].obs : u \in TesterSubs})
     /\ FirstUnusedOrUsed(name, {tSubs[u].name : u \in TesterSubs})
     /\ tSubs' = [tSubs EXCEPT ![t] =
                    [fresh EXCEPT !.status = status,
                                  !.terminals = IF status = "live" THEN 0 ELSE 1]]
     /\ tObs' = [tObs EXCEPT ![o].observers = IF status = "live" THEN @ \cup {t} ELSE @]
     /\ errorCounts' = [errorCounts EXCEPT ![name] =
                          IF status = "errored" THEN @ + 1 ELSE @]
     /\ completionCounts' = [completionCounts EXCEPT ![name] =
                               IF status = "completed" THEN @ + 1 ELSE @]
     /\ tList' = tList \cup {t}
     /\ UNCHANGED <<emissionCounts, tEmitting, tEmits, nonTestVars>>

\* TestObservable.emit(value): subject.next(value) calls the observers it had
\* when it started, one after the other; the first is called here, the others
\* by TestEmitContinues, and what a callback does comes in between
TestEmit(o) ==
  IF ~tObs[o].isCompleted /\ ~tObs[o].hasErrored
    THEN /\ tEmitting = {}
         /\ tEmits < MaxEmits
         /\ tEmits' = tEmits + 1
         /\ LET T == tObs[o].observers
                first == IF T = {} THEN {} ELSE {CHOOSE t \in T : \A u \in T : t <= u}
            IN /\ tSubs' = TesterSubsAfterNext(first)
               /\ emissionCounts' = IncrementCount(emissionCounts, Receiving(first))
               /\ tEmitting' = T \ first
         /\ UNCHANGED <<tObs, tList, errorCounts, completionCounts, nonTestVars>>
    ELSE UNCHANGED vars

\* the loop of subject.next(value) reaches its next observer
TestEmitContinues ==
  /\ tEmitting # {}
  /\ LET next == {CHOOSE t \in tEmitting : \A u \in tEmitting : t <= u}
     IN /\ tSubs' = TesterSubsAfterNext(next)
        /\ emissionCounts' = IncrementCount(emissionCounts, Receiving(next))
        /\ tEmitting' = tEmitting \ next
  /\ UNCHANGED <<tObs, tList, errorCounts, completionCounts, tEmits, nonTestVars>>

\* the Subject of o ends: every observer is sent the notification and dropped
TestEnds(o, status) ==
  LET T == tObs[o].observers
  IN /\ tObs' = [tObs EXCEPT ![o] =
                   [@ EXCEPT !.isCompleted = @ \/ status = "completed",
                             !.hasErrored = @ \/ status = "errored",
                             !.observers = {}]]
     /\ tSubs' = TesterSubsAfterEnd(T, status)
     /\ completionCounts' = IF status = "completed"
                              THEN IncrementCount(completionCounts, Receiving(T))
                              ELSE completionCounts
     /\ errorCounts' = IF status = "errored"
                         THEN IncrementCount(errorCounts, Receiving(T))
                         ELSE errorCounts
     /\ UNCHANGED <<tList, emissionCounts, tEmitting, tEmits, nonTestVars>>

\* mutant: complete() tests isCompleted only
TestCompleteAfterError(o) ==
  IF ~tObs[o].isCompleted THEN TestEnds(o, "completed") ELSE UNCHANGED vars

\* TestObservable.complete()
TestComplete(o) ==
  IF ~tObs[o].isCompleted /\ ~tObs[o].hasErrored
    THEN TestEnds(o, "completed")
    ELSE UNCHANGED vars

\* TestObservable.error(error)
TestError(o) ==
  IF ~tObs[o].isCompleted /\ ~tObs[o].hasErrored
    THEN TestEnds(o, "errored")
    ELSE UNCHANGED vars

\* sub.unsubscribe() on every subscription of T: the open ones are closed and
\* leave their Subject
TesterSubsUnsubscribed(T) ==
  [t \in TesterSubs |->
     IF t \in Receiving(T) THEN [tSubs[t] EXCEPT !.status = "unsubscribed"] ELSE tSubs[t]]

TestObsWithout(T) ==
  [o \in TestObs |-> [tObs[o] EXCEPT !.observers = @ \ T]]

\* unsubscribe() on the Subscription SubscriptionTester.subscribe returned
TesterUnsubscribe(t) ==
  /\ tSubs[t].status # "unused"
  /\ tSubs' = TesterSubsUnsubscribed({t})
  /\ tObs' = TestObsWithout({t})
  /\ UNCHANGED <<tList, emissionCounts, errorCounts, completionCounts, tEmitting,
                 tEmits, nonTestVars>>

\* SubscriptionTester.unsubscribeAll()
TesterUnsubscribeAll ==
  /\ tSubs' = TesterSubsUnsubscribed(tList)
  /\ tObs' = TestObsWithout(tList)
  /\ tList' = {}
  /\ UNCHANGED <<emissionCounts, errorCounts, completionCounts, tEmitting, tEmits,
                 nonTestVars>>

\* SubscriptionTester.reset(): unsubscribeAll(), then the three maps are cleared;
\* counted marks the subscriptions made since
TesterReset ==
  /\ tSubs' = [t \in TesterSubs |->
                 [TesterSubsUnsubscribed(tList)[t] EXCEPT !.counted = FALSE]]
  /\ tObs' = TestObsWithout(tList)
  /\ tList' = {}
  /\ emissionCounts' = [n \in TesterNames |-> 0]
  /\ errorCounts' = [n \in TesterNames |-> 0]
  /\ completionCounts' = [n \in TesterNames |-> 0]
  /\ UNCHANGED <<tEmitting, tEmits, nonTestVars>>

GetEmissionCount(name) == emissionCounts[name]

GetErrorCount(name) == errorCounts[name]

GetCompletionCount(name) == completionCounts[name]

\* mutant: the filter on closed is left out
AllSubscriptionCount == Cardinality(tList)

\* SubscriptionTester.getActiveSubscriptionCount()
GetActiveSubscriptionCount == Cardinality({t \in tList : ~TesterClosed(t)})

NextTest ==
  \/ \E t \in TesterSubs, o \in TestObs, name \in TesterNames : TesterSubscribe(t, o, name)
  \/ \E o \in TestObs : TestEmit(o)
  \/ TestEmitContinues
  \/ \E o \in TestObs : TestComplete(o)
  \/ \E o \in TestObs : TestError(o)
  \/ \E t \in TesterSubs : TesterUnsubscribe(t)
  \/ TesterUnsubscribeAll
  \/ TesterReset

\* ============================== MemoryOptimizer.shareWithCleanup(source, d)

ShareSubs == 1..NumShareSubs
CleanupDelays == 0..MaxCleanupDelay

\* the closure variables of one call, the state of source.pipe(shareReplay(1))
\* and the instants that matter: elapsed is the age of the pending timer,
\* zeroFor the time refCount has been 0 without a break
NoSharing ==
  [created |-> FALSE, cleanupDelayMs |-> 0, refCount |-> 0, sharedObservable |-> "null",
   cleanupTimeout |-> "null", connection |-> "none", failed |-> FALSE,
   srcSubscribes |-> 0, elapsed |-> 0, zeroFor |-> 0, discards |-> 0]

UnusedShareSub ==
  [status |-> "unused", arrivedPending |-> FALSE, arrivedFailed |-> FALSE,
   subscribedSource |-> FALSE]

InitShare ==
  /\ sharing = NoSharing
  /\ shareSubs = [s \in ShareSubs |-> UnusedShareSub]

LiveShareSubs == {s \in ShareSubs : shareSubs[s].status = "live"}

\* the time refCount has been 0 without a break, after a step that took
\* passed units of time and left refCount at after
ZeroFor(after, passed) ==
  IF after # 0 THEN 0
  ELSE IF sharing.refCount # 0 THEN 0
  ELSE Min(sharing.zeroFor + passed, MaxCleanupDelay)

\* the teardown of n subscribers, one after the other: refCount--, and the one
\* that reaches 0 calls setTimeout(() => { sharedObservable = null }, d)
AfterTeardowns(sh, n) ==
  IF n = 0 THEN sh
  ELSE [sh EXCEPT !.refCount = @ - n,
                  !.cleanupTimeout = IF sh.refCount - n = 0 THEN "pending" ELSE @,
                  !.elapsed = IF sh.refCount - n = 0 THEN 0 ELSE @,
                  !.zeroFor = ZeroFor(sh.refCount - n, 0)]

\* mutant: a new subscriber leaves the pending cleanup alone
KeepTimeout(sh) == sh

\* if (cleanupTimeout) { clearTimeout(cleanupTimeout); cleanupTimeout = null }
ClearTimeout(sh) == [sh EXCEPT !.cleanupTimeout = "null", !.elapsed = 0]

\* if (!sharedObservable) sharedObservable = source.pipe(shareReplay(1))
EnsureShared(sh) ==
  IF sh.sharedObservable = "null"
    THEN [sh EXCEPT !.sharedObservable = "set", !.connection = "idle", !.failed = FALSE]
    ELSE sh

\* MemoryOptimizer.shareWithCleanup(source, cleanupDelayMs)
ShareWithCleanup(d) ==
  /\ ~sharing.created
  /\ sharing' = [NoSharing EXCEPT !.created = TRUE, !.cleanupDelayMs = d]
  /\ UNCHANGED <<shareSubs, nonShareVars>>

\* a subscriber arrives: refCount++, the pending cleanup is cancelled, the
\* shared stream is made if there is none, and sharedObservable.subscribe runs.
\* shareReplay(1) subscribes the source for its first subscriber and for the
\* first one after the source failed; once the source has completed it replays
\* and completes the subscriber at once, whose teardown then runs.
ShareSubscribe(s) ==
  LET counted == [sharing EXCEPT !.refCount = @ + 1, !.zeroFor = 0]
      ready == EnsureShared(ClearTimeout(counted))
      connects == ready.connection = "idle"
      joined == [ready EXCEPT
                   !.connection = IF connects THEN "connected" ELSE @,
                   !.srcSubscribes = IF connects THEN @ + 1 ELSE @,
                   !.failed = IF connects THEN FALSE ELSE @]
      over == ready.connection = "completed"
  IN /\ sharing.created
     /\ shareSubs[s].status = "unused"
     /\ \A t \in ShareSubs : t < s => shareSubs[t].status # "unused"
     /\ shareSubs' = [shareSubs EXCEPT ![s] =
                        [status |-> IF over THEN "completed" ELSE "live",
                         arrivedPending |-> sharing.cleanupTimeout = "pending",
                         arrivedFailed |-> sharing.failed,
                         subscribedSource |-> connects]]
     /\ sharing' = IF over THEN AfterTeardowns(joined, 1) ELSE joined
     /\ UNCHANGED nonShareVars

\* the source completes or fails: every live subscriber is sent the
\* notification and its teardown runs; shareReplay keeps a completed source's
\* buffer and forgets a failed source
ShareSourceEnds(status) ==
  LET ended == [sharing EXCEPT
                  !.connection = IF status = "errored" THEN "idle" ELSE "completed",
                  !.failed = @ \/ status = "errored"]
  IN /\ sharing.connection = "connected"
     /\ sharing' = AfterTeardowns(ended, Cardinality(LiveShareSubs))
     /\ shareSubs' = [s \in ShareSubs |->
                        IF s \in LiveShareSubs
                          THEN [shareSubs[s] EXCEPT !.status = status]
                          ELSE shareSubs[s]]
     /\ UNCHANGED nonShareVars

\* a subscriber unsubscribes: subscription.unsubscribe(); refCount--; ...
ShareUnsubscribe(s) ==
  /\ shareSubs[s].status = "live"
  /\ shareSubs' = [shareSubs EXCEPT ![s].status = "unsubscribed"]
  /\ sharing' = AfterTeardowns(sharing, 1)
  /\ UNCHANGED nonShareVars

\* one unit of time passes while the cleanup timer is pending
ShareTick ==
  /\ sharing.cleanupTimeout = "pending"
  /\ sharing.elapsed < sharing.cleanupDelayMs
  /\ sharing' = [sharing EXCEPT !.elapsed = @ + 1,
                                !.zeroFor = ZeroFor(sharing.refCount, 1)]
  /\ UNCHANGED <<shareSubs, nonShareVars>>

\* the timer callback: sharedObservable = null (cleanupTimeout keeps the handle
\* of the timer that fired)
ShareCleanupFires ==
  /\ sharing.cleanupTimeout = "pending"
  /\ sharing.elapsed >= sharing.cleanupDelayMs
  /\ sharing' = [sharing EXCEPT !.sharedObservable = "null", !.cleanupTimeout = "fired",
                                !.connection = "none", !.discards = 1]
  /\ UNCHANGED <<shareSubs, nonShareVars>>

NextShare ==
  \/ \E d \in CleanupDelays : ShareWithCleanup(d)
  \/ \E s \in ShareSubs : ShareSubscribe(s)
  \/ \E status \in {"completed", "errored"} : ShareSourceEnds(status)
  \/ \E s \in ShareSubs : ShareUnsubscribe(s)
  \/ ShareTick
  \/ ShareCleanupFires

\* ========================================================= specifications

Init ==
  InitBinder /\ InitManager /\ InitRetry /\ InitDebug /\ InitOptimizer /\ InitGetters
  /\ InitMatch /\ InitRoute /\ InitVisibility /\ InitForm /\ InitTest
  /\ InitTeardown /\ InitShare

SpecBinder == Init /\ [][NextBinder]_vars

SpecOperators == Init /\ [][NextOperators]_vars

SpecManager == Init /\ [][NextManager]_vars

SpecSupersede == Init /\ [][NextSupersede]_vars

SpecRetry == Init /\ [][NextRetry]_vars

SpecDebug == Init /\ [][NextDebug]_vars

SpecTracking == Init /\ [][NextTracking]_vars

\* the getters, applied to every record set
InitMetrics ==
  InitBinder /\ InitManager /\ InitRetry /\ InitRecords /\ InitOptimizer /\ InitGetters
  /\ InitMatch /\ InitRoute /\ InitVisibility /\ InitForm /\ InitTest
  /\ InitTeardown /\ InitShare

SpecMetrics == InitMetrics /\ [][NextGetters]_vars

\* matchesRoutePattern, applied to every url and pattern
InitMatching ==
  InitBinder /\ InitManager /\ InitRetry /\ InitDebug /\ InitOptimizer /\ InitGetters
  /\ InitMatchInputs /\ InitRoute /\ InitVisibility /\ InitForm /\ InitTest
  /\ InitTeardown /\ InitShare

SpecMatch == InitMatching /\ [][NextMatch]_vars

SpecRoute == Init /\ [][NextRoute]_vars

SpecVisible == Init /\ [][NextVisible]_vars

SpecBuffer == Init /\ [][NextBuffer]_vars


\* ================================================================= claims

\* ---- C1 (SpecBinder)
\* C1: a subscription that was live when its bound Subject fired (owner destroy,
\* cancel, unsubscribe(name)) has completed without error, its source has been
\* torn down exactly once, and no value reached it after the firing.
C1_StopsOnSignal ==
  \A s \in Subs :
    subs[s].sawFire =>
      /\ subs[s].status = "completed"
      /\ subs[s].teardowns = 1
      /\ ~subs[s].srcActive
      /\ ~subs[s].fwdAfterFire

\* a subscriber received a value, its signal fired, and the source pushed again
C1_Witness ==
  \E s \in Subs :
    /\ subs[s].sawFire
    /\ subs[s].received = 1
    /\ subs[s].dropped
    /\ KindOf(s) = "takeUntilDestroyed"

\* ---- C2 (SpecBinder)
\* C2: a subscription made after the bound Subject has fired completes at once
\* and receives no value from the source.
C2_LateSubscribeCompletes ==
  \A s \in Subs :
    subs[s].late =>
      /\ subs[s].status = "completed"
      /\ subs[s].received = 0
      /\ ~subs[s].srcActive

\* ---- C3 (SpecBinder)
\* C3: once the source of a destroy-bound stream has completed or failed on its
\* own before the owner is destroyed, the binding's callback is no longer
\* registered with the owner's DestroyRef.
C3_ListenerDetached ==
  \A s \in Subs :
    ( /\ subs[s].endedBySource
      /\ ~ownerDestroyed
      /\ KindOf(s) \in DestroyKinds
      /\ bindings[subs[s].binding].mode = "bound" )
    => subs[s].binding \notin destroyCallbacks

\* ---- C4 (SpecOperators)
\* C4: every lifecycle-binding operator applied without its lifecycle source
\* returns the source itself, having warned exactly once and thrown nothing.
C4_DegradesToPassThrough ==
  \A b \in Bindings :
    bindings[b].unavailable =>
      /\ bindings[b].mode = "passthrough"
      /\ bindings[b].warnings = 1

\* ---- C5 (SpecManager)
\* C5: after ngOnDestroy the registered set is empty for good, and a call of
\* add() has warned, closed everything it was given and registered none of it.
C5_AddAfterDestroy ==
  isDestroyed =>
    /\ subscriptions = {}
    /\ lastOp = "add" =>
         /\ lastWarnings = 1
         /\ \A s \in lastArgs : closed[s] /\ s \notin subscriptions

\* add(s1, s2) was called on a destroyed manager
C5_Witness ==
  /\ isDestroyed
  /\ lastOp = "add"
  /\ Cardinality(lastArgs) >= 2
  /\ \A s \in lastArgs : teardownCount[s] = 1

\* ---- C6 (SpecManager)
\* C6 as stated: after a direct unsubscribeAll(), a later add() leaves
\* activeCount at 0 and everything it was given closed.
C6_AddAfterUnsubscribeAll ==
  (everUnsubscribedAll /\ lastOp = "add") =>
    /\ ActiveCountValue = 0
    /\ \A s \in lastArgs : closed[s]

\* C6 as amended: after ngOnDestroy, activeCount is 0 and every subscription
\* passed to a later add() is closed.
C6_AddAfterDestroyNoneActive ==
  isDestroyed =>
    /\ ActiveCountValue = 0
    /\ \A s \in addedAfterDestroy : closed[s]

\* unsubscribeAll(), then ngOnDestroy, then add() of several subscriptions
C6_Witness ==
  /\ isDestroyed
  /\ everUnsubscribedAll
  /\ Cardinality(addedAfterDestroy) >= 2
  /\ lastOp = "activeCount"
  /\ retCount = 0

\* ---- C7 (SpecManager)
C7_Destroyed ==
  isDestroyed =>
    /\ \A s \in openAtDestroy : closed[s] /\ teardownCount[s] = 1
    /\ subscriptions = {}
    /\ ActiveCountValue = 0
    /\ lastOp = "activeCount" => retCount = 0

C7_UnsubscribeAllAgain ==
  (isDestroyed /\ lastOp' = "unsubscribeAll") =>
    UNCHANGED <<subscriptions, closed, teardownCount, isDestroyed>>

C8_Step ==
  /\ lastOp' = "remove" =>
       /\ closed' = closed
       /\ teardownCount' = teardownCount
       /\ lastArgs' \cap subscriptions' = {}
  /\ lastOp' \in {"unsubscribeAll", "ngOnDestroy"} =>
       \A s \in Managed \ subscriptions : closed'[s] = closed[s]

\* C8: remove(s) takes s out of the set and leaves its closed flag as it was;
\* unsubscribeAll and ngOnDestroy leave every subscription that is not in the
\* set as it was.
C8_RemoveReleases == [][C8_Step]_vars

\* a removed subscription is still open after ngOnDestroy closed the others
C8_Witness ==
  /\ lastOp = "ngOnDestroy"
  /\ openAtDestroy # {}
  /\ \E s \in released : ~closed[s]

\* ---- C9 (SpecManager)
C9_Once ==
  \A s \in Managed :
    /\ teardownCount[s] <= 1
    /\ closed[s] <=> teardownCount[s] = 1

C9_Step ==
  /\ \A s \in Managed : closed[s] => closed'[s]
  /\ ( /\ lastOp' = "safeUnsubscribe"
       /\ (lastArgs' = {} \/ \E s \in lastArgs' : closed[s]) )
     => /\ retBool' = FALSE
        /\ UNCHANGED <<closed, teardownCount, subscriptions, isDestroyed>>

\* C9: whatever is called, each subscription's teardown runs at most once and
\* its closed flag never goes back to false; safeUnsubscribe of null, undefined
\* or a closed subscription returns false and changes nothing.
C9_TeardownAtMostOnce == []C9_Once /\ [][C9_Step]_vars

\* a subscription closed by add() after destroy is handed to safeUnsubscribe
C9_Witness ==
  /\ lastOp = "safeUnsubscribe"
  /\ ~retBool
  /\ \E s \in lastArgs : teardownCount[s] = 1 /\ s \in addedAfterDestroy

\* ---- C10 (SpecManager)
C10_Step ==
  LET active == {s \in subscriptions : ~closed[s]}
  IN lastOp' \in {"activeCount", "hasActiveSubscriptions"} =>
       /\ subscriptions' = active
       /\ \A s \in subscriptions' : ~closed'[s]
       /\ lastOp' = "activeCount" => retCount' = Cardinality(active)
       /\ lastOp' = "hasActiveSubscriptions" => retBool' = (Cardinality(active) > 0)

\* C10: activeCount returns the number of registered subscriptions that are
\* not closed, hasActiveSubscriptions is true exactly when that number is
\* positive, and after either read no closed subscription is registered.
C10_ActiveCountExact == [][C10_Step]_vars

\* a read of activeCount dropped a closed entry and counted the open ones
C10_Witness ==
  /\ lastOp = "activeCount"
  /\ lastDropped # {}
  /\ retCount >= 1

\* ---------------------------------------------------------------- C11
\* C11 as stated: a subscription that has left the registered set, through
\* remove, unsubscribeAll or reconciliation, is never in the set again.
C11_NeverReinserted ==
  \A s \in subscriptions : leftVia[s] = "none"

\* C11 amended: a subscription that has left the registered set through
\* unsubscribeAll (ngOnDestroy included) or through the reconciliation of a
\* getter is never in the set again; one that remove() took out while it was
\* open is registered again by a later add().
C11_ClosedNeverReinserted ==
  \A s \in subscriptions : leftVia[s] \notin {"unsubscribeAll", "reconciliation"}

\* add() on a live manager is handed a subscription that left through
\* unsubscribeAll or reconciliation, and the subscription stays out
C11_Witness ==
  /\ lastOp = "add"
  /\ ~isDestroyed
  /\ \E s \in lastArgs, r \in lastArgs :
       /\ leftVia[s] = "unsubscribeAll"
       /\ leftVia[r] = "reconciliation"
       /\ s \notin subscriptions
       /\ r \notin subscriptions

\* ---------------------------------------------------------------- C12
\* C12: in HttpRequestManager and FormSubscriptionManager no two signals
\* created under the same key are un-fired at the same time: installing a new
\* signal under a key fires the one installed before it.
C12_OneUnfiredSignalPerKey ==
  \A a \in Bindings, b \in Bindings :
    ( /\ a # b
      /\ bindings[a].kind \in {RequestKind, ManageKind}
      /\ bindings[a].kind = bindings[b].kind
      /\ bindings[a].key = bindings[b].key
      /\ bindings[a].subject = "open" )
    => bindings[b].subject # "open"

\* ---------------------------------------------------------------- C13
\* C13: of two streams obtained through cancelPrevious(), the one started
\* first has no live subscription while the one started after it has one.
C13_NeverBothLive ==
  \A s \in Subs, t \in Subs :
    ( /\ subs[s].status = "live"
      /\ subs[t].status = "live"
      /\ KindOf(s) = PreviousKind
      /\ KindOf(t) = PreviousKind )
    => subs[s].binding = subs[t].binding

\* ---------------------------------------------------------------- C14
\* C14: against a source that fails on every subscription, retryWithBackoff
\* with maxRetries = N >= 1 subscribes the source N + 1 times and no more, and
\* the failure of subscription N + 1 reaches the subscriber as the source's own
\* error instead of starting another wait.
C14_GivesUpAfterNRetries ==
  (rArgs.failing = Always /\ rArgs.maxRetries >= 1) =>
    /\ rSubscribes <= rArgs.maxRetries + 1
    /\ (rSubscribes = rArgs.maxRetries + 1) => rCaughtAt = 0
    /\ (rStatus = "errored") =>
         (rSubscribes = rArgs.maxRetries + 1 /\ rError = rArgs.error)

\* ---------------------------------------------------------------- C15
\* C15: with retryWithBackoff(3, 100, 1000) on a source that fails twice and
\* then succeeds, the subscriber never gets an error, and once it has completed
\* the source was subscribed 3 times, the value was delivered and the waits
\* were 100 and then 200.
C15_FailTwiceThenSucceed ==
  ( /\ rArgs.maxRetries = 3
    /\ rArgs.initialDelay = 100
    /\ rArgs.maxDelay = 1000
    /\ rArgs.failing = 2 )
  => /\ rStatus # "errored"
     /\ (rStatus = "completed") =>
          /\ rSubscribes = 3
          /\ rValues = 1
          /\ rError = NoError
          /\ rWaits = <<100, 200>>

\* ---------------------------------------------------------------- C16
\* C16: for maxRetries >= 1 the wait before the k-th retry (k = 0 for the
\* first) is min(initialDelay * 2^k, maxDelay), whatever maxRetries is.
C16_WaitDoublesPerRetry ==
  (rArgs.maxRetries >= 1) =>
    \A k \in 1..Len(rWaits) :
      rWaits[k] = Min(rArgs.initialDelay * Pow2(k - 1), rArgs.maxDelay)

\* ---------------------------------------------------------------- C17
C17_Quiet ==
  (rStatus = "unsubscribed") =>
    /\ ~rSourceActive
    /\ rError = NoError

C17_Step ==
  (rStatus = "unsubscribed") =>
    /\ rSubscribes' = rSubscribes
    /\ rValues' = rValues
    /\ rError' = rError
    /\ ~rSourceActive'

\* C17: once the subscriber of a retryWithBackoff stream has unsubscribed,
\* during a backoff wait or while a retried source subscription is open, the
\* source has no open subscription, it is never subscribed again and no value
\* or error is delivered.
C17_UnsubscribeStopsRetrying == []C17_Quiet /\ [][C17_Step]_vars

\* the subscriber unsubscribed during the wait that followed a failed retry
C17_Witness ==
  /\ rStatus = "unsubscribed"
  /\ rUnsubAt = "wait"
  /\ rSubscribes >= 2
  /\ Len(rWaits) >= 2

\* ---------------------------------------------------------------- C18
C18_Step ==
  /\ \A k \in Tracked :
       (~dStreams[k].made /\ dStreams'[k].made /\ ~dEnabled) =>
         /\ dStreams'[k].same
         /\ UNCHANGED <<dMap, dInfo, debugCounter>>
  /\ (Len(oReturned') > Len(oReturned) /\ ~oEnabled) =>
       /\ oReturned'[Len(oReturned')].same
       /\ UNCHANGED <<observables, sharedObservables, idCounter>>

\* C18: a call of debugSubscription made while the debugger is disabled, and a
\* call of MemoryOptimizer.optimize made while the optimizer is disabled,
\* returns the observable it was given and leaves the record map, the records
\* and the id counter as they were.
C18_DisabledReturnsSource == [][C18_Step]_vars

\* both services were called while enabled and then again while disabled
C18_Witness ==
  /\ ~dEnabled
  /\ ~oEnabled
  /\ debugCounter = 1
  /\ idCounter = 1
  /\ \E k \in Tracked : dStreams[k].made /\ dStreams[k].same
  /\ Len(oReturned) = 2
  /\ oReturned[2].same

\* ---------------------------------------------------------------- C19
\* C19: every subscriber of a stream returned by debugSubscription while
\* enabled has received what a subscription of its own to the source would
\* have given it so far, and the source has been subscribed once for each
\* subscriber of the stream.
C19_TrackingIsPassive ==
  /\ \A s \in DebugSubs :
       (dSubs[s].status # "unused" /\ ~dStreams[dSubs[s].stream].same) =>
         dSubs[s].received = SubSeq(SourceValues, 1, Len(dSubs[s].received))
  /\ \A k \in Tracked :
       (dStreams[k].made /\ ~dStreams[k].same) =>
         dStreams[k].sourceSubscribes = dStreams[k].subscribers

\* ---------------------------------------------------------------- C20
C20_Step ==
  \A id \in DebugIds :
    (dInfo[id].exists /\ ~dInfo[id].isActive) =>
      /\ dInfo'[id].isActive = dInfo[id].isActive
      /\ dInfo'[id].duration = dInfo[id].duration
      /\ dInfo'[id].emissionCount = dInfo[id].emissionCount

\* C20: once a debug record has been marked inactive, its isActive, duration
\* and emissionCount never change again.
C20_FrozenAfterTeardown == [][C20_Step]_vars

\* ---------------------------------------------------------------- C21
\* a step in which a delete timer takes the record of id out of the map
C21_TimerRemoves(id) ==
  /\ id \in dMap
  /\ id \notin dMap'
  /\ dTimers'[id] # dTimers[id]

\* C21: the record of a torn-down stream stays retrievable until the timer
\* started at that teardown fires: timers of equal delay fire in the order they
\* were set, so a timer that removes the record is the last one pending for it,
\* the one of the latest teardown.
C21_RetainedUntilOwnTimer ==
  [][\A id \in DebugIds : C21_TimerRemoves(id) => dTimers'[id] = 0]_vars


\* ---------------------------------------------------------------- C22
\* the records the claim counts: active, older than 300000 ms, and never
\* emitted or last emitted more than 60000 ms ago
C22_Counted ==
  {id \in dMap :
     /\ dInfo[id].isActive
     /\ dNow - dInfo[id].createdAt > 300000
     /\ (dInfo[id].emissionCount = 0 \/ dNow - dInfo[id].lastEmission > 60000)}

\* C22: detectPotentialLeaks() returns the number of records that are active,
\* older than 300000 ms and without an emission in the last 60000 ms; inactive
\* records and records that emitted within the last 60000 ms are not counted.
C22_LeaksCounted ==
  mCall = "detectPotentialLeaks" => mReturned = Cardinality(C22_Counted)

\* a call that counts one record and passes over an active old record that
\* emitted exactly 60000 ms ago
C22_Witness ==
  /\ mCall = "detectPotentialLeaks"
  /\ mReturned = 1
  /\ \E id \in dMap : /\ dInfo[id].isActive
                      /\ dNow - dInfo[id].createdAt > 300000
                      /\ dNow - dInfo[id].lastEmission = 60000

\* ---------------------------------------------------------------- C23
\* the completed records of the map
C23_Completed == {id \in dMap : ~dInfo[id].isActive}

\* the sum of the durations of the completed records
C23_TotalLifetime == SumOver([id \in DebugIds |-> dInfo[id].duration], C23_Completed)

\* the quotient kept in averageLifetime is the mean of the durations of all
\* completed records, 0 when there is none
C23_MeanOfCompleted ==
  LET avg == mReturned.averageLifetime
  IN IF C23_Completed = {}
       THEN avg[1] = 0
       ELSE avg[1] * Cardinality(C23_Completed) = C23_TotalLifetime * avg[2]

\* C23: getPerformanceMetrics() is computed from the records of the map:
\* totalSubscriptions is their number, activeSubscriptions the number of active
\* ones, totalEmissions and totalErrors the sums of their counters, and
\* averageLifetime the mean of duration over all completed records (0 when
\* there is none).
C23_MetricsOfRecords ==
  mCall = "getPerformanceMetrics" =>
    /\ mReturned.totalSubscriptions = Cardinality(dMap)
    /\ mReturned.activeSubscriptions = Cardinality({id \in dMap : dInfo[id].isActive})
    /\ mReturned.totalEmissions =
         SumOver([id \in DebugIds |-> dInfo[id].emissionCount], dMap)
    /\ mReturned.totalErrors = SumOver([id \in DebugIds |-> dInfo[id].errorCount], dMap)
    /\ C23_MeanOfCompleted

\* ---------------------------------------------------------------- C24
\* The matching the claim describes, anchored at both ends: ** stands for any
\* run of characters, separators included (any number of segments), * for a
\* run without a separator (one segment), any other character for itself.
RECURSIVE C24_Glob(_, _)
C24_Glob(pattern, url) ==
  IF pattern = <<>> THEN url = <<>>
  ELSE IF Len(pattern) >= 2 /\ pattern[1] = "*" /\ pattern[2] = "*"
    THEN \E n \in 0..Len(url) :
           C24_Glob(SubSeq(pattern, 3, Len(pattern)), SubSeq(url, n + 1, Len(url)))
  ELSE IF pattern[1] = "*"
    THEN \E n \in 0..Len(url) :
           /\ \A i \in 1..n : url[i] # "/"
           /\ C24_Glob(Tail(pattern), SubSeq(url, n + 1, Len(url)))
  ELSE url # <<>> /\ url[1] = pattern[1] /\ C24_Glob(Tail(pattern), Tail(url))

\* C24: matchesRoutePattern is an anchored match of the whole path in which *
\* matches one path segment and ** any number of segments: "/d/**" matches
\* "/d/d/d" and does not match "/dd".
C24_AnchoredGlob ==
  patReturned # <<>> => patReturned[1] = C24_Glob(patPattern, patUrl)

\* ---------------------------------------------------------------- C26
\* C26: while a takeWhileOnRoute stream is subscribed and its source has not
\* ended, the source is subscribed exactly when the current url (the url at
\* subscription time, then that of the latest NavigationEnd) matches the
\* pattern.
C26_SubscribedIffOnRoute ==
  (whileOnRoute.status = "live" /\ ~whileOnRoute.srcDone) =>
    (whileOnRoute.srcActive = MatchesRoutePattern(navUrl, whileOnRoute.arg))

\* ---------------------------------------------------------------- C27
\* the NavigationEnd urls since the takeUntilRoute stream was subscribed
C27_Since == SubSeq(navEnds, untilRoute.since + 1, Len(navEnds))

\* the url is the target route or below it
C27_OnTarget(url) ==
  url = untilRoute.arg \/ StartsWith(url, untilRoute.arg \o <<"/">>)

\* the NavigationEnd urls that end the stream: all of them without a target,
\* those off the target route with one
C27_Leaves(url) == untilRoute.arg = NoTarget \/ ~C27_OnTarget(url)

\* C27: a takeUntilRoute stream is live only as long as no NavigationEnd since
\* its subscription has left the target route (any NavigationEnd when there is
\* no target), and the route completes it only at the first NavigationEnd that
\* does.
C27_CompletesWhenLeaving ==
  /\ untilRoute.status = "live" =>
       \A i \in 1..Len(C27_Since) : ~C27_Leaves(C27_Since[i])
  /\ untilRoute.endedBy = "route" =>
       \E i \in 1..Len(C27_Since) :
         /\ C27_Leaves(C27_Since[i])
         /\ \A j \in 1..(i - 1) : ~C27_Leaves(C27_Since[j])

\* ---------------------------------------------------------------- C25
\* the source subscriptions of the takeWhileVisible stream that are open
C25_Open ==
  whileVisible.srcSubscribes - whileVisible.srcUnsubscribes - whileVisible.srcCompletes

RECURSIVE C28_Flat(_)
C28_Flat(arrays) ==
  IF arrays = <<>> THEN <<>> ELSE arrays[1] \o C28_Flat(Tail(arrays))

\* C28: the arrays emitted by bufferWhileHidden(n) hold at most n values each
\* and hold the source values in arrival order, each value in at most one array
\* and at most once in it (the source values are numbered in arrival order).
C28_EachValueOnceInOrder ==
  LET flat == C28_Flat(whileHidden.out)
  IN /\ \A k \in 1..Len(whileHidden.out) :
          /\ whileHidden.out[k] # <<>>
          /\ Len(whileHidden.out[k]) <= whileHidden.bufferSize
     /\ \A i, j \in 1..Len(flat) : i < j => flat[i] < flat[j]

\* ---------------------------------------------------------------- C29
\* C29: a takeUntilHidden stream is live only as long as the page has not been
\* hidden since the subscription, the moment of subscription included; when
\* the hidden page ends it the source is unsubscribed; every value of the
\* source has been forwarded.
C29_HardStopWhenHidden ==
  /\ untilHidden.status = "live" => ~untilHidden.wasHidden
  /\ untilHidden.endedBy = "hidden" => ~untilHidden.srcActive
  /\ untilHidden.forwarded = untilHidden.emitted

\* ---------------------------------------------------------------- C30
\* the subscriptions of request streams that are subscribed and not finished
C30_LiveRequests == {s \in Subs : subs[s].status = "live" /\ KindOf(s) = RequestKind}

\* the subscription has completed and its source is unsubscribed after the step
C30_Cancelled(s) == subs'[s].status = "completed" /\ ~subs'[s].srcActive

\* cancelAllRequests() leaves no pending request and cancels every live
\* request stream; cancelRequest(id) cancels the live request streams created
\* under id
C30_Step ==
  /\ CancelAllRequests =>
       /\ \A k \in RequestIds : pendingRequests'[k] = NoBinding
       /\ \A s \in C30_LiveRequests : C30_Cancelled(s)
  /\ \A id \in RequestIds :
       CancelRequest(id) =>
         \A s \in C30_LiveRequests : KeyOf(s) = id => C30_Cancelled(s)

\* C30: after cancelAllRequests() getPendingRequestCount() is 0 and every
\* request stream of the manager that was subscribed and not yet finished has
\* completed with its source unsubscribed; cancelRequest(id) does the same for
\* the live request created under id.
C30_CancelReachesLiveRequests == [][C30_Step]_vars

\* ========================================= the keyed managers on their own

\* HttpRequestManager and FormSubscriptionManager: requests and managed
\* streams being created, subscribed, finished and cancelled
NextKeyed ==
  \/ \E b \in Bindings, idArg \in UserIds \cup {NoKey} : CreateCancellableRequest(b, idArg)
  \/ \E b \in Bindings, name \in Names : Manage(b, name)
  \/ \E s \in Subs, b \in Bindings : Subscribe(s, b)
  \/ \E s \in Subs : SourceEmit(s)
  \/ \E s \in Subs : SourceComplete(s)
  \/ \E s \in Subs : SourceError(s)
  \/ \E s \in Subs : Unsubscribe(s)
  \/ \E b \in Bindings : Cancel(b)
  \/ \E id \in RequestIds : CancelRequest(id)
  \/ CancelAllRequests
  \/ \E name \in Names : FormUnsubscribe(name)
  \/ FormUnsubscribeAll

SpecKeyed == Init /\ [][NextKeyed]_vars

\* ---------------------------------------------------------------- C31
\* the state a call of the cancel closure of request b leaves behind
C31_CancelDone(b) ==
  /\ bindings[b].kind = RequestKind
  /\ bindings[b].subject = "stopped"
  /\ bindings[b].observers = {}
  /\ pendingRequests[bindings[b].key] = NoBinding

\* each of the three calls leaves its signal fired and its entry gone, and the
\* same call made from the state it left behind changes nothing
C31_Step ==
  /\ \A b \in Bindings :
       /\ Cancel(b) => C31_CancelDone(b)'
       /\ (C31_CancelDone(b) /\ Cancel(b)) => UNCHANGED vars
  /\ \A id \in RequestIds :
       /\ CancelRequest(id) => pendingRequests'[id] = NoBinding
       /\ (pendingRequests[id] = NoBinding /\ CancelRequest(id)) => UNCHANGED vars
  /\ \A name \in Names :
       /\ FormUnsubscribe(name) => formSubscriptions'[name] = NoBinding
       /\ (formSubscriptions[name] = NoBinding /\ FormUnsubscribe(name))
            => UNCHANGED vars

\* C31: a second consecutive call of a request's cancel closure, of
\* cancelRequest(id) or of FormSubscriptionManager.unsubscribe(name) notifies
\* no subscriber and leaves the maps, the signals and every subscription as
\* the first call left them.
C31_SecondFireChangesNothing == [][C31_Step]_vars

\* a request and a managed stream, each with a subscriber its signal completed,
\* in the state the first calls left behind
C31_Witness ==
  \E s \in Subs, t \in Subs :
    /\ subs[s].sawFire /\ subs[s].teardowns = 1
    /\ subs[t].sawFire /\ subs[t].teardowns = 1
    /\ KindOf(s) = RequestKind
    /\ KindOf(t) = ManageKind
    /\ C31_CancelDone(subs[s].binding)
    /\ formSubscriptions[KeyOf(t)] = NoBinding

\* ---------------------------------------------------------------- C32
SpecForm == Init /\ [][NextForm]_vars

\* the values, numbered from first, for which isValid() returned true
RECURSIVE C32_Kept(_, _)
C32_Kept(readings, n) ==
  IF n = 0 THEN <<>>
  ELSE IF readings[n] THEN Append(C32_Kept(readings, n - 1), n)
       ELSE C32_Kept(readings, n - 1)

\* the subscriber has been sent exactly the values for which isValid() returned
\* true, and the source is subscribed as long as the stream has not ended
C32_Forwarded ==
  /\ Len(whileValid.readings) = whileValid.emitted
  /\ whileValid.forwarded = C32_Kept(whileValid.readings, whileValid.emitted)
  /\ whileValid.status = "live" <=> whileValid.srcActive

\* a value of the source, kept or dropped, leaves the stream live and the
\* source subscribed
C32_Step ==
  whileValid'.emitted # whileValid.emitted =>
    /\ whileValid'.status = "live"
    /\ whileValid'.srcActive

\* C32: takeWhileFormValid(isValid) forwards a value of the source exactly when
\* isValid() returns true at that emission; a false result drops that value
\* only, the stream stays live and the source subscribed, and later values are
\* forwarded again once isValid() returns true.
C32_FiltersByValidity == []C32_Forwarded /\ [][C32_Step]_vars

\* a value was forwarded, the next was dropped while the form was invalid, and
\* the one after it was forwarded again
C32_Witness ==
  /\ whileValid.status = "live"
  /\ whileValid.readings = <<TRUE, FALSE, TRUE>>
  /\ whileValid.forwarded = <<1, 3>>

\* ---------------------------------------------------------------- C33
SpecTest == Init /\ [][NextTest]_vars

\* the subscriptions made under name since the last reset
C33_Under(name) == {t \in TesterSubs : tSubs[t].counted /\ tSubs[t].name = name}

\* the values delivered to the subscriptions of T
RECURSIVE C33_Values(_)
C33_Values(T) ==
  IF T = {} THEN 0
  ELSE LET t == CHOOSE u \in T : TRUE
       IN tSubs[t].received + C33_Values(T \ {t})

C33_Ended(name, status) == {t \in C33_Under(name) : tSubs[t].status = status}

\* the subscriptions to TestObservable objects that have completed
C33_OfCompleted ==
  {t \in TesterSubs : tSubs[t].status # "unused" /\ tObs[tSubs[t].obs].isCompleted}

C33_Counts ==
  /\ \A name \in TesterNames :
       /\ GetEmissionCount(name) = C33_Values(C33_Under(name))
       /\ GetErrorCount(name) = Cardinality(C33_Ended(name, "errored"))
       /\ GetCompletionCount(name) = Cardinality(C33_Ended(name, "completed"))
  /\ \A t \in C33_OfCompleted : TesterClosed(t)
  /\ GetActiveSubscriptionCount <= Cardinality(tList \ C33_OfCompleted)

\* whatever is called, a subscription to a completed TestObservable is sent
\* no value
C33_Step == \A t \in C33_OfCompleted : tSubs'[t].received = tSubs[t].received

\* C33: the three counters of a name equal the values, errors and completions
\* delivered to the subscriptions made under that name since the last reset;
\* a subscription to a TestObservable that has completed is closed, is not
\* counted by getActiveSubscriptionCount, and is sent nothing by later emit calls.
C33_CountsWhatWasDelivered == []C33_Counts /\ [][C33_Step]_vars

\* two subscriptions under one name received a value each, and one
\* of them then saw its TestObservable complete and is still in the list
C33_Witness ==
  \E t \in tList, u \in tList, name \in TesterNames :
    /\ t # u
    /\ C33_Under(name) = {t, u}
    /\ GetEmissionCount(name) = 2
    /\ GetCompletionCount(name) = 1
    /\ tSubs[t].status = "completed"
    /\ tSubs[u].status = "live"
    /\ GetActiveSubscriptionCount = 1

\* ---------------------------------------------------------------- C39
C39_OneTerminalState ==
  /\ \A o \in TestObs : ~(tObs[o].isCompleted /\ tObs[o].hasErrored)
  /\ \A t \in TesterSubs :
       /\ tSubs[t].terminals <= 1
       /\ tSubs[t].status \in {"completed", "errored"} <=> tSubs[t].terminals = 1

C39_Step ==
  /\ \A o \in TestObs :
       /\ tObs[o].isCompleted => tObs'[o].isCompleted
       /\ tObs[o].hasErrored => tObs'[o].hasErrored
  /\ \A t \in TesterSubs :
       tSubs[t].terminals = 1 =>
         /\ tSubs'[t].received = tSubs[t].received
         /\ tSubs'[t].status = tSubs[t].status

\* C39: a TestObservable is never both completed and errored and each flag,
\* once true, stays true; a subscriber is sent at most one terminal
\* notification and no value after it, also when complete() or error() is
\* called while emit() is still going through the subscribers.
C39_AtMostOneTerminal == []C39_OneTerminalState /\ [][C39_Step]_vars

\* complete() was called from a subscriber's callback while emit() had another
\* subscriber left to call; that subscriber got the completion and not the value
C39_Witness ==
  \E t \in TesterSubs, u \in TesterSubs :
    /\ tSubs[t].obs = tSubs[u].obs
    /\ tSubs[t].received = 1
    /\ tSubs[u].received = 0
    /\ tSubs[u].dropped
    /\ tSubs[u].status = "completed"
    /\ tSubs[u].terminals = 1

\* ---------------------------------------------------------------- C34
SpecTeardown == Init /\ [][NextTeardown]_vars

\* while ngOnDestroy() runs the flag is set; once it has returned the set is empty
C34_Flagged ==
  /\ destroying => isDestroyed
  /\ (isDestroyed /\ ~destroying) => subscriptions = {}

\* the flag is never reset, and add() on a destroyed manager, called from a
\* teardown callback or later, closes what it is given and registers nothing
C34_Step ==
  /\ isDestroyed => isDestroyed'
  /\ (isDestroyed /\ lastOp' = "add") =>
       /\ \A s \in lastArgs' : closed'[s]
       /\ subscriptions' \subseteq subscriptions

\* C34: isDestroyed is set before ngOnDestroy() unsubscribes anything and is
\* never reset; add() called from a teardown callback while ngOnDestroy() runs
\* closes its subscription at once and does not register it; after
\* ngOnDestroy(), called once or more, the flag is true and the set is empty.
C34_FlagSetBeforeTeardown == []C34_Flagged /\ [][C34_Step]_vars

\* ngOnDestroy() has unsubscribed a registered subscription, whose teardown
\* called add() with a new one: that one is closed and not registered
C34_Witness ==
  /\ destroying
  /\ lastOp = "add"
  /\ \E s \in visited, n \in lastArgs :
       /\ teardownCount[s] = 1
       /\ n \notin subscriptions
       /\ closed[n]
       /\ teardownCount[n] = 1
       /\ leftVia[n] = "none"

\* ---------------------------------------------------------------- C35
\* the step fires the Subject of request b or ends one of its subscriptions
C35_OwnEnd(b) ==
  \/ bindings[b].subject = "open" /\ bindings'[b].subject = "stopped"
  \/ \E s \in Subs :
       /\ subs[s].binding = b
       /\ subs[s].status = "live"
       /\ subs'[s].status # "live"

C35_Step ==
  \A id \in RequestIds :
    (pendingRequests[id] # NoBinding /\ pendingRequests'[id] = NoBinding)
      => C35_OwnEnd(pendingRequests[id])

\* C35: the pendingRequests entry of a request is removed only by a step that
\* cancels that request or finalizes one of its subscriptions; the cancel
\* closure and the finalization of an older request under the same id leave
\* it in place.
C35_RemovedOnlyByOwnRequest == [][C35_Step]_vars

\* ---------------------------------------------------------------- C36
\* the subscriptions of managed streams that are subscribed and not finished
C36_LiveSubs == {s \in Subs : subs[s].status = "live" /\ KindOf(s) = ManageKind}

\* the streams manage() returned that are live
C36_LiveStreams == {subs[s].binding : s \in C36_LiveSubs}

C36_Step ==
  FormUnsubscribeAll =>
    /\ GetActiveCount' = 0
    /\ \A s \in C36_LiveSubs : subs'[s].status = "completed"

\* C36: getActiveCount() is the number of streams returned by manage() that
\* are live; unsubscribeAll() leaves it at 0 and completes every managed
\* stream that was live.
C36_CountsLiveStreams ==
  [](GetActiveCount = Cardinality(C36_LiveStreams)) /\ [][C36_Step]_vars

\* ---------------------------------------------------------------- C38
SpecOptimizer == Init /\ [][NextOptimizer]_vars

\* C38: every id in the sharedObservables map is in the observables map, the
\* id of a finalized stream is in neither, and getMemoryStats().sharedObservables
\* is at most getMemoryStats().totalObservables.
C38_SharedAmongTracked ==
  /\ sharedObservables \subseteq observables
  /\ GetMemoryStats.sharedObservables <= GetMemoryStats.totalObservables

\* ---------------------------------------------------------------- C37
SpecShare == Init /\ [][NextShare]_vars

C37_Counted ==
  /\ sharing.refCount = Cardinality(LiveShareSubs)
  /\ sharing.refCount >= 0
  /\ sharing.cleanupTimeout = "pending" => sharing.refCount = 0

C37_Arrives(s) == shareSubs[s].status = "unused" /\ shareSubs'[s].status # "unused"

\* an arrival while the cleanup is pending cancels it and keeps the shared stream
C37_ArrivalStep ==
  \A s \in ShareSubs :
    (C37_Arrives(s) /\ sharing.cleanupTimeout = "pending")
      => /\ shareSubs'[s].arrivedPending
         /\ sharing'.sharedObservable = "set" /\ sharing.sharedObservable = "set"
         /\ \/ sharing'.cleanupTimeout = "null"
            \/ shareSubs'[s].status = "completed"

\* the shared stream is dropped only when refCount has been 0 for all of d
C37_DiscardStep ==
  (sharing.sharedObservable = "set" /\ sharing'.sharedObservable = "null")
    => /\ sharing.refCount = 0
       /\ sharing.zeroFor >= sharing.cleanupDelayMs

\* C37 as stated: refCount is the number of live subscribers and never
\* negative, the cleanup timer is pending only while refCount is 0, a subscriber
\* that arrives while the cleanup is pending cancels it and reuses the shared
\* stream without a new subscription to the source, and the shared stream is
\* discarded only after refCount has stayed 0 for the whole delay.
C37_AsStated ==
  /\ [](C37_Counted
        /\ \A s \in ShareSubs :
             shareSubs[s].arrivedPending => ~shareSubs[s].subscribedSource)
  /\ [][C37_ArrivalStep /\ C37_DiscardStep]_vars

\* C37 amended: the same, except that the arrival does subscribe to the source
\* again when the last subscription of the shared stream to the source ended in
\* an error; otherwise the source is not subscribed again.
C37_SharedUntilIdleForDelay ==
  /\ [](C37_Counted
        /\ \A s \in ShareSubs :
             shareSubs[s].arrivedPending =>
               (shareSubs[s].subscribedSource <=> shareSubs[s].arrivedFailed))
  /\ [][C37_ArrivalStep /\ C37_DiscardStep]_vars

\* a subscriber came back while the cleanup was pending and reused the shared
\* stream, and later the stream was discarded after the longest delay
C37_Witness ==
  /\ sharing.discards = 1
  /\ sharing.cleanupDelayMs = MaxCleanupDelay
  /\ sharing.srcSubscribes = 1
  /\ \E s \in ShareSubs :
       /\ shareSubs[s].arrivedPending
       /\ ~shareSubs[s].subscribedSource
       /\ shareSubs[s].status = "unsubscribed"

====
